---- MODULE Spec2Model ----
\* PyMaya: the mutation/undo command layer (pymaya/core/api.py, general.py),
\* the composite MultiModifier with utilities.Iterator, and the type resolver
\* of PyObjectFactory, as state machines over a small scene.
EXTENDS Integers, Sequences, FiniteSets, TLC

VARIABLES
    val,        \* scene: value stored in each scalar plug
    locked,     \* scene: MPlug.isLocked of each plug
    conn,       \* scene: source plug driving each destination plug (Null: none)
    nodes,      \* scene: nodes that exist
    par,        \* scene: DAG parent of each node
    keyable,    \* scene: MPlug.isKeyable of each plug
    chbox,      \* scene: MPlug.isChannelBox of each plug
    mods,       \* heap of api.DGModifier / api.DagModifier objects
    ledger,     \* apiundo: the registered (undo, redo) pairs
    cursor,     \* apiundo: entries of the ledger currently applied
    batch,      \* id of the modifier the caller made to pass as _modifier (0: none)
    made,       \* number of node objects the modifiers have made so far
    steps,      \* number of operations performed so far
    last,       \* the last operation: its arguments, what it returned, what it did
    modifiers,  \* MultiModifier.modifiers: the member list
    raising,    \* the members whose doIt and undoIt raise
    mlast,      \* the last MultiModifier call: the member calls it made, in order
    resolved,   \* the last PyObjectFactory call: its input and the class it chose
    parentDict, \* UserSubclassManager._parentDict: virtual classes by library parent
    vClasses,   \* UserSubclassManager._vClasses: virtual classes in registration order
    alive,      \* whether the scene node behind each node wrapper still exists
    cache,      \* attribute wrappers stored on each node wrapper instance, by name
    nattr,      \* number of attribute wrappers built so far
    alast,      \* the last call on a node wrapper: what it returned, what it asked the host
    uiUnit,     \* host: the distance unit of the UI (MDistance.uiUnit())
    comp,       \* a mesh's vertex count, the vtx accessor the caller holds, its last subscript
    host,       \* scene: the active selection list, the members of the object set
    mfnAttr,    \* the attribute function set the last AttrCreator call returned
    fac,        \* a component accessor of dimension 1 to 3 and its last subscript
    rlast       \* the last call on the registry of user classes, and the classes registered so far

vars == <<val, locked, conn, nodes, par, keyable, chbox, mods, ledger, cursor, batch, made, steps, last,
          modifiers, raising, mlast, resolved, parentDict, vClasses, alive, cache, nattr, alast, uiUnit, comp, host, mfnAttr, fac, rlast>>
wrapperVars == <<alive, cache, nattr, alast>>
registryVars == <<parentDict, vClasses>>
resolverVars == <<resolved, registryVars, wrapperVars>>
commandVars == <<val, locked, conn, nodes, par, keyable, chbox, mods, ledger, cursor, batch, made, steps, last, host>>
multiVars == <<modifiers, raising, mlast>>

\* ---------------------------------------------------------------- bounds
MaxMembers == 3
MaxAttrs == 3

MaxSteps == 3
MaxCount == 3
MaxSelects == 1

\* evaluate x once, then F of its value
Then(x, F(_)) == CHOOSE r \in {F(v) : v \in {x}} : TRUE

\* ---------------------------------------------------------------- scene
Null == <<"", "">>
Axes == <<"X", "Y", "Z">>
ShearAxes == <<"XY", "XZ", "YZ">>
Groups == <<"translate", "rotate", "scale", "shear">>

AxesOf(g) == IF g = "shear" THEN ShearAxes ELSE Axes

\* the plug named '<group><axis>' that transform() looks up with findPlug
ChannelPlug(g, i) == <<g, AxesOf(g)[i]>>

Channels == {ChannelPlug(Groups[g], i) : g \in 1..4, i \in 1..3}
CompoundPlug == <<"t", "translate">>
SrcPlugs == {<<"a", "out">>, <<"b", "out">>}
DstPlug == <<"c", "in">>
DstPlugs == {DstPlug}
\* a plug whose attribute is of a kind DataType.fromMObject has no branch for
GenericPlug == <<"c", "generic">>
ScalarPlugs == Channels
AllPlugs == Channels \cup {CompoundPlug, GenericPlug} \cup SrcPlugs \cup DstPlugs

numChildren(plug) == IF plug = CompoundPlug THEN 3 ELSE 0
isCompound(plug) == numChildren(plug) > 0
child(plug, x) == ChannelPlug("translate", x)

DataTypeOf(plug) ==
    IF plug = CompoundPlug THEN "FLOAT3"
    ELSE IF plug = GenericPlug THEN "None"
    ELSE IF plug[1] = "translate" THEN "DISTANCE"
    ELSE IF plug[1] = "rotate" THEN "ANGLE"
    ELSE IF plug[1] \in {"scale", "shear"} THEN "FLOAT"
    ELSE "MESSAGE"

World == "world"
NewNodes == <<"n1", "n2", "n3", "n4">>
NewNodeSet == {NewNodes[i] : i \in 1..Len(NewNodes)}
DagNodes == {"t", "p"} \cup NewNodeSet

\* ---------------------------------------------------------------- results
NoRet == [kind |-> "none", id |-> 0]
ModRet(id) == [kind |-> "mod", id |-> id]
NodeRet(id) == [kind |-> "node", id |-> id]
RawRet(id) == [kind |-> "mobject", id |-> id]

Ok(w, ret) == [w |-> w, ret |-> ret, err |-> "none"]
Raise(w, e) == [w |-> w, ret |-> NoRet, err |-> e]
Event(w, e) == [w EXCEPT !.ev = Append(@, e)]

\* ------------------------------------------------- utilities.Iterator
\* Python indexes data from 0: data[n] is data[n + 1] here
Iterator_new(data) == [data |-> data, max |-> Len(data) - 1, isDone |-> FALSE, n |-> 0]

Iterator_next(it) ==
    IF it.n < it.max THEN [it EXCEPT !.n = it.n + 1] ELSE [it EXCEPT !.isDone = TRUE]

Iterator_isDone(it) == it.isDone

\* data[n] raises IndexError outside the list
Iterator_inRange(it) == it.n < Len(it.data)

Iterator_currentItem(it) == it.data[it.n + 1]

\* ---------------------------------------------------------------- om2.MDGModifier
\* The host's modifier: a queue of edits; doIt applies the queued edits not yet
\* applied, in order; undoIt reverts the applied ones, last first.
NewOp(k, p, q, v, n, m) ==
    [k |-> k, p |-> p, q |-> q, v |-> v, old |-> 0, n |-> n, m |-> m, oldm |-> ""]

OpPossible(w, op) ==
    CASE op.k = "connect"    -> w.conn[op.q] = Null
      [] op.k = "disconnect" -> w.conn[op.q] = op.p
      [] op.k = "createNode" -> op.n \notin w.nodes
      [] op.k = "reparent"   -> op.n \in w.nodes /\ op.m \in w.nodes
      [] OTHER               -> TRUE

DoOp(w, op) ==
    CASE op.k = "setval"     -> [w EXCEPT !.val[op.p] = op.v]
      [] op.k = "connect"    -> [w EXCEPT !.conn[op.q] = op.p]
      [] op.k = "disconnect" -> [w EXCEPT !.conn[op.q] = Null]
      [] op.k = "createNode" -> [w EXCEPT !.nodes = @ \cup {op.n}, !.par[op.n] = op.m]
      [] op.k = "reparent"   -> [w EXCEPT !.par[op.n] = op.m]
      [] OTHER               -> w

Remember(w, op) ==
    CASE op.k = "setval"   -> [op EXCEPT !.old = w.val[op.p]]
      [] op.k = "reparent" -> [op EXCEPT !.oldm = w.par[op.n]]
      [] OTHER             -> op

UndoOp(w, op) ==
    CASE op.k = "setval"     -> [w EXCEPT !.val[op.p] = op.old]
      [] op.k = "connect"    -> [w EXCEPT !.conn[op.q] = Null]
      [] op.k = "disconnect" -> [w EXCEPT !.conn[op.q] = op.p]
      [] op.k = "createNode" -> [w EXCEPT !.nodes = @ \ {op.n}, !.par[op.n] = ""]
      [] op.k = "reparent"   -> [w EXCEPT !.par[op.n] = op.oldm]
      [] OTHER               -> w

RECURSIVE MDG_doFrom(_, _, _)
MDG_doFrom(w, id, i) ==
    IF i > Len(w.mods[id].ops) THEN Ok(w, NoRet)
    ELSE LET op == w.mods[id].ops[i] IN
         IF ~OpPossible(w, op) THEN Raise(w, "RuntimeError")
         ELSE MDG_doFrom([DoOp(w, op) EXCEPT !.mods[id].ops[i] = Remember(w, op),
                                             !.mods[id].done = i], id, i + 1)

RECURSIVE MDG_undoFrom(_, _, _)
MDG_undoFrom(w, id, i) ==
    IF i = 0 THEN [w EXCEPT !.mods[id].done = 0]
    ELSE MDG_undoFrom(UndoOp(w, w.mods[id].ops[i]), id, i - 1)

\* ---------------------------------------------------------------- api.DGModifier
\* the objects that can be selected
Objs == {"a", "b"}
NoHost == [active |-> {}, members |-> {}, point |-> 0]

NoArg == [b |-> FALSE, s |-> {}, p |-> 0]
NewModifier == [ops |-> <<>>, done |-> 0, f |-> "", uf |-> "", doArg |-> NoArg, undoArg |-> NoArg]

DGModifier_new(w) ==
    [w EXCEPT !.mods = Append(@, NewModifier)]

NewId(w) == Len(w.mods) + 1

Enqueue(w, id, op) ==
    Event([w EXCEPT !.mods[id].ops = Append(@, op)], "enq")

DGModifier_doIt(w, id) ==
    Then(MDG_doFrom(w, id, w.mods[id].done + 1),
         LAMBDA r : [r EXCEPT !.w = Event(@, IF r.err = "none" THEN "doIt" ELSE "doItFailed")])

DGModifier_undoIt(w, id) ==
    Event(MDG_undoFrom(w, id, w.mods[id].done), "undoIt")

\* the datatype switch at the end of setPlugValue: which low-level setter is queued
\* distances are stored in centimetres; the UI shows them in centimetres or in
\* millimetres
Units == {"cm", "mm"}
PerCm(unit) == IF unit = "mm" THEN 10 ELSE 1
\* MDistance(value, unit): the stored length of a value given in a unit
MDistance(value, unit) == value \div PerCm(unit)
\* MDistance.asUnits(unit): a stored length shown in a unit
asUnits(d, unit) == d * PerCm(unit)
\* the default of toDistance's unit argument is MDistance.uiUnit() evaluated
\* when the class body runs: the UI unit at the time the module was loaded
ImportUnit == "cm"
toDistance(value) == MDistance(value, ImportUnit)
\* angles are kept in the unit in which they are shown: the angle unit of the UI
\* stays what it was when the module was loaded
toAngle(value) == value

SetScalar(w, id, plug, value, datatype) ==
    IF datatype \in {"FLOAT", "INT", "ENUM", "BOOL", "STRING", "MATRIX"}
    THEN Ok(Enqueue(w, id, NewOp("setval", plug, Null, value, "", "")), NoRet)
    ELSE IF datatype = "ANGLE"
    THEN Ok(Enqueue(w, id, NewOp("setval", plug, Null, toAngle(value), "", "")), NoRet)
    ELSE IF datatype = "DISTANCE"
    THEN Ok(Enqueue(w, id, NewOp("setval", plug, Null, toDistance(value), "", "")), NoRet)
    ELSE IF datatype = "TIME" THEN Raise(w, "TypeError")
    ELSE Ok(w, NoRet)

RECURSIVE SetChildren(_, _, _, _, _)
SetChildren(w, id, plug, value, x) ==
    IF x > numChildren(plug) THEN Ok(w, NoRet)
    ELSE LET r == SetScalar(w, id, child(plug, x), value[x], DataTypeOf(child(plug, x)))
         IN  IF r.err # "none" THEN r ELSE SetChildren(r.w, id, plug, value, x + 1)

\* setPlugValue without the length test on a compound's value
DGModifier_setPlugValue_NoArity(w, id, plug, value, datatype) ==
    LET dt == IF datatype = "None" THEN DataTypeOf(plug) ELSE datatype IN
    IF isCompound(plug)
    THEN LET r == IF Len(value) >= numChildren(plug)
                  THEN SetChildren(w, id, plug, value, 1) ELSE Ok(w, NoRet)
         IN  IF r.err # "none" THEN r ELSE SetScalar(r.w, id, plug, value, dt)
    ELSE SetScalar(w, id, plug, value, dt)

DGModifier_setPlugValue(w, id, plug, value, datatype) ==
    LET dt == IF datatype = "None" THEN DataTypeOf(plug) ELSE datatype IN
    IF isCompound(plug)
    THEN IF Len(value) >= numChildren(plug)
         THEN LET r == SetChildren(w, id, plug, value, 1)
              IN  IF r.err # "none" THEN r ELSE SetScalar(r.w, id, plug, value, dt)
         ELSE Raise(w, "ValueError")
    ELSE SetScalar(w, id, plug, value, dt)

\* what a read gives back: a value (numbers, one per component), a node, None,
\* or nothing when it raises
Got(kind, v) == [kind |-> kind, v |-> v, err |-> "none"]
GotErr(e) == [kind |-> "none", v |-> <<>>, err |-> e]

ReadScalar(w, plug, attrType, ui) ==
    IF attrType = "DISTANCE" THEN Got("value", <<asUnits(w.val[plug], ui)>>)
    ELSE IF attrType \in {"ANGLE", "FLOAT"} THEN Got("value", <<w.val[plug]>>)
    ELSE IF attrType = "MESSAGE"
    THEN IF plug \in DstPlugs /\ w.conn[plug] # Null THEN Got("mobject", <<>>) ELSE Got("None", <<>>)
    ELSE GotErr("TypeError")

getPlugValue(w, plug, attrType, ui) ==
    LET dt == IF attrType = "None" THEN DataTypeOf(plug) ELSE attrType IN
    IF dt = "FLOAT3"
    THEN Got("value", [x \in 1..numChildren(plug) |->
                          ReadScalar(w, child(plug, x), DataTypeOf(child(plug, x)), ui).v[1]])
    ELSE ReadScalar(w, plug, dt, ui)

DGModifier_disconnect(w, id, args) ==
    IF Len(args) = 0 THEN Raise(w, "ValueError")
    ELSE LET dPlug == IF Len(args) = 1 THEN args[1] ELSE args[2]
             sPlug == IF Len(args) = 1 THEN w.conn[dPlug] ELSE args[1]
         IN  IF sPlug = Null THEN Ok(w, NoRet)
             ELSE Ok(Enqueue(w, id, NewOp("disconnect", sPlug, dPlug, 0, "", "")), NoRet)

DGModifier_connect_NoDisconnect(w, id, sPlug, dPlug, force) ==
    LET src == w.conn[dPlug] IN
    IF src # Null /\ sPlug = src THEN Ok(w, NoRet)
    ELSE IF w.locked[dPlug] THEN Raise(w, "AttributeError")
    ELSE Ok(Enqueue(w, id, NewOp("connect", sPlug, dPlug, 0, "", "")), NoRet)

DGModifier_connect(w, id, sPlug, dPlug, force) ==
    LET src == w.conn[dPlug] IN
    IF src # Null /\ sPlug = src THEN Ok(w, NoRet)
    ELSE IF w.locked[dPlug] THEN Raise(w, "AttributeError")
    ELSE LET d == IF force THEN DGModifier_disconnect(w, id, <<dPlug>>) ELSE Ok(w, NoRet)
         IN  Ok(Enqueue(d.w, id, NewOp("connect", sPlug, dPlug, 0, "", "")), NoRet)

\* MDGModifier.createNode makes the node object at once (the host names it); it
\* joins the scene at doIt
DGModifier_createNode(w, id, parent) ==
    Ok(Enqueue([w EXCEPT !.made = @ + 1], id,
               NewOp("createNode", Null, Null, 0, NewNodes[w.made + 1], parent)), RawRet(id))

\* ---------------------------------------------------------------- api.ProxyModifier
\* a ProxyModifier holds the function to call for doIt with its arguments, and
\* the one for undoIt (the doIt function when undoFunc is None) with its own
ProxyModifier_new(w, doFunc, doArg, undoFunc, undoArg) ==
    [w EXCEPT !.mods = Append(@, [NewModifier EXCEPT !.f = doFunc,
                                      !.uf = IF undoFunc = "None" THEN doFunc ELSE undoFunc,
                                      !.doArg = doArg, !.undoArg = undoArg])]

FlagPlug == ChannelPlug("translate", 1)
FlagPlugs == {FlagPlug}

Attribute_setKeyable_(w, plug, value) ==
    [w EXCEPT !.keyable[plug] = value, !.chbox[plug] = ~value]

Attribute_setDisplayable_(w, plug, value) ==
    [w EXCEPT !.chbox[plug] = value]

\* om2.MGlobal.setActiveSelectionList
MGlobal_setActiveSelectionList(w, sel) == [w EXCEPT !.host.active = sel]

\* the function a ProxyModifier holds, called with its argument (defined below)
RECURSIVE Call(_, _, _)

ProxyModifier_doIt(w, id) ==
    Ok(Event(Call(w, w.mods[id].f, w.mods[id].doArg), "doIt"), NoRet)

ProxyModifier_undoIt(w, id) ==
    Event(Call(w, w.mods[id].uf, w.mods[id].undoArg), "undoIt")

\* result.doIt / result.undoIt of whatever modifier was registered
Command_doIt(w, id) ==
    IF w.mods[id].f = "" THEN DGModifier_doIt(w, id) ELSE ProxyModifier_doIt(w, id)

Command_undoIt(w, id) ==
    IF w.mods[id].f = "" THEN DGModifier_undoIt(w, id) ELSE ProxyModifier_undoIt(w, id)

\* ---------------------------------------------------------------- apiundo
\* The undo ledger the host drives: commit registers a pair after the entries
\* currently applied.
commit(w, id) ==
    Event([w EXCEPT !.ledger = Append(SubSeq(@, 1, w.cursor), [id |-> id]),
                    !.cursor = @ + 1], "commit")

apiUndo_NoCommit(result) == result

apiUndo(result) ==
    Then(result, LAMBDA r : IF r.err = "none" /\ r.ret.kind # "none"
                            THEN [r EXCEPT !.w = commit(r.w, r.ret.id)]
                            ELSE r)

\* Mesh._setPoint: the vertex is moved in the host
Mesh_setPoint_(w, point) == [w EXCEPT !.host.point = point]

\* Mesh.setPoint [UNDOABLE]: a ProxyModifier over _setPoint, with the point
\* read before as the argument of undoIt
Mesh_setPoint(w, point) ==
    LET oldPoint == w.host.point
        id == NewId(w)
        w1 == ProxyModifier_new(w, "_setPoint", [NoArg EXCEPT !.p = point], "None",
                                [NoArg EXCEPT !.p = oldPoint])
        d == ProxyModifier_doIt(w1, id)
    IN  apiUndo(Ok(d.w, ModRet(id)))

\* ComponentPoint._setPosition: it calls the node's setPoint, the undoable one
ComponentPoint_setPosition_(w, point) == Mesh_setPoint(w, point).w

\* ComponentPoint.setPosition [UNDOABLE]: a ProxyModifier over _setPosition
ComponentPoint_setPosition(w, point) ==
    LET oldPoint == w.host.point
        id == NewId(w)
        w1 == ProxyModifier_new(w, "_setPosition", [NoArg EXCEPT !.p = point], "None",
                                [NoArg EXCEPT !.p = oldPoint])
        d == ProxyModifier_doIt(w1, id)
    IN  apiUndo(Ok(d.w, ModRet(id)))

Call(w, f, arg) ==
    CASE f = "_setKeyable"     -> Attribute_setKeyable_(w, FlagPlug, arg.b)
      [] f = "_setDisplayable" -> Attribute_setDisplayable_(w, FlagPlug, arg.b)
      [] f = "setActiveSelectionList" -> MGlobal_setActiveSelectionList(w, arg.s)
      [] f = "_setPoint"       -> Mesh_setPoint_(w, arg.p)
      [] f = "_setPosition"    -> ComponentPoint_setPosition_(w, arg.p)
      [] OTHER                 -> w

\* ---------------------------------------------------------------- general.py
\* m is the caller's _modifier (0 when the keyword is absent)
Modifier(w, m) == IF m = 0 THEN NewId(w) ELSE m
WithModifier(w, m) == IF m = 0 THEN DGModifier_new(w) ELSE w

Finish(result, modifier, doIt) ==
    Then(result,
         LAMBDA r : IF r.err # "none" THEN r
                    ELSE IF doIt
                         THEN Then(DGModifier_doIt(r.w, modifier),
                                   LAMBDA d : IF d.err # "none" THEN d
                                              ELSE Ok(d.w, ModRet(modifier)))
                         ELSE Ok(r.w, NoRet))

setAttr(w, attr, value, datatype, m) ==
    apiUndo(Finish(DGModifier_setPlugValue(WithModifier(w, m), Modifier(w, m), attr, value, datatype),
                   Modifier(w, m), m = 0))

getAttr(w, attr, datatype, ui) == getPlugValue(w, attr, datatype, ui)

connectAttr(w, sAttr, dAttr, force, m) ==
    apiUndo(Finish(DGModifier_connect(WithModifier(w, m), Modifier(w, m), sAttr, dAttr, force),
                   Modifier(w, m), m = 0))

disconnectAttr(w, args, m) ==
    apiUndo(Finish(DGModifier_disconnect(WithModifier(w, m), Modifier(w, m), args),
                   Modifier(w, m), m = 0))

\* createNode of a DAG node type; isDag is the _isDag keyword ("None": absent).
\* The parent is handed to the modifier only where the type is auto-detected.
createNode(w, parent, m, isDag) ==
    LET mod == Modifier(w, m)
        r == DGModifier_createNode(WithModifier(w, m), mod,
                                   IF m = 0 /\ isDag = "None" THEN parent ELSE World)
    IN  IF m = 0
        THEN LET d == DGModifier_doIt(r.w, mod)
             IN  IF d.err # "none" THEN d ELSE Ok(commit(d.w, mod), NodeRet(mod))
        ELSE Ok(r.w, NodeRet(mod))

\* DependNode.create: registers the modifier, then applies it when it is its own
DependNode_create(w, m) ==
    LET mod == Modifier(w, m)
        r == DGModifier_createNode(WithModifier(w, m), mod, "")
        c == commit(r.w, mod)
    IN  IF m = 0
        THEN LET d == DGModifier_doIt(c, mod)
             IN  IF d.err # "none" THEN d ELSE Ok(d.w, NodeRet(mod))
        ELSE Ok(c, RawRet(mod))

\* plug.isFreeToChange() == kFreeToChange
isFreeToChange(w, plug) == ~w.locked[plug]

ChannelType(g) ==
    IF g = "translate" THEN "DISTANCE" ELSE IF g = "rotate" THEN "ANGLE" ELSE "FLOAT"

\* the four loops of transform() that write the channels of the groups given
\* (given[g] = <<>> : the keyword is None), k running over the 12 channels
RECURSIVE SetChannels(_, _, _, _)
SetChannels(w, id, given, k) ==
    IF k > 12 THEN Ok(w, NoRet)
    ELSE LET g == Groups[((k - 1) \div 3) + 1]
             x == ((k - 1) % 3) + 1
             plug == ChannelPlug(g, x)
         IN  IF given[g] # <<>> /\ isFreeToChange(w, plug)
             THEN Then(DGModifier_setPlugValue(w, id, plug, given[g][x], ChannelType(g)),
                       LAMBDA r : IF r.err # "none" THEN r ELSE SetChannels(r.w, id, given, k + 1))
             ELSE SetChannels(w, id, given, k + 1)

\* transform() without matrix: the body after line 952
transformChannels(w, given, m) ==
    LET mod == Modifier(w, m)
    IN  Then(SetChannels(WithModifier(w, m), mod, given, 1),
             LAMBDA r : IF r.err # "none" THEN r
                        ELSE IF m = 0 THEN Finish(r, mod, TRUE)
                        ELSE Ok(r.w, ModRet(mod)))

NoMatrix == [translate |-> <<>>, rotate |-> <<>>, scale |-> <<>>, shear |-> <<>>]

\* transform(): with a matrix it calls the decorated transform again with the
\* matrix's translation, rotation, scale and shear
transform(w, given, matrix, m) ==
    apiUndo(IF matrix # NoMatrix
            THEN apiUndo(transformChannels(w, matrix, m))
            ELSE transformChannels(w, given, m))

\* parent(obj, pObj): one object under the node pObj (World: kNullObj)
parent(w, obj, pObj, relative, matrix, m) ==
    LET mod == Modifier(w, m)
        w1 == Enqueue(WithModifier(w, m), mod, NewOp("reparent", Null, Null, 0, obj, pObj))
    IN  apiUndo(Then(IF relative THEN Ok(w1, NoRet)
                     ELSE IF pObj = World THEN Raise(w1, "TypeError")
                     ELSE transform(w1, NoMatrix, matrix, mod),
                     LAMBDA t : IF t.err # "none" THEN t
                                ELSE IF m = 0 THEN Finish(t, mod, TRUE)
                                ELSE Ok(t.w, ModRet(mod))))

\* ---------------------------------------------------------------- the host
\* the host's undo and redo run the registered pair at the cursor
hostUndo(w) ==
    [Command_undoIt(w, w.ledger[w.cursor].id) EXCEPT !.cursor = @ - 1]

hostRedo(w) ==
    LET r == Command_doIt(w, w.ledger[w.cursor + 1].id)
    IN  [r EXCEPT !.w.cursor = @ + 1]

\* Attribute.setKeyable / setDisplayable: a ProxyModifier over the setter, with
\* the value read before as the argument of undoIt
Attribute_setKeyable(w, plug, value) ==
    LET oldValue == w.keyable[plug]
        id == NewId(w)
        w1 == ProxyModifier_new(w, "_setKeyable", [NoArg EXCEPT !.b = value], "None", [NoArg EXCEPT !.b = oldValue])
        d == ProxyModifier_doIt(w1, id)
    IN  apiUndo(Ok(d.w, ModRet(id)))

Attribute_setDisplayable(w, plug, value) ==
    LET oldValue == w.chbox[plug]
        id == NewId(w)
        w1 == ProxyModifier_new(w, "_setDisplayable", [NoArg EXCEPT !.b = value], "None", [NoArg EXCEPT !.b = oldValue])
        d == ProxyModifier_doIt(w1, id)
    IN  apiUndo(Ok(d.w, ModRet(id)))

\* the loop `while not it.isDone(): use it.currentItem(); it.next()`: the items
\* it has used when it ends, or the IndexError of reading outside the data
RECURSIVE Iterator_loop(_, _)
Iterator_loop(it, used) ==
    IF Iterator_isDone(it) THEN [used |-> used, err |-> "none"]
    ELSE IF ~Iterator_inRange(it) THEN [used |-> used, err |-> "IndexError"]
    ELSE Iterator_loop(Iterator_next(it), Append(used, Iterator_currentItem(it)))

Range(q) == {q[i] : i \in 1..Len(q)}

\* what select is given as objects: None, a list, or an MSelectionList
NoObjects == [kind |-> "None", items |-> <<>>]
ObjectInputs ==
    {NoObjects}
    \cup {[kind |-> "list", items |-> q] : q \in {<<>>, <<"a">>, <<"b">>, <<"a", "b">>}}
    \cup {[kind |-> "MSelectionList", items |-> q] : q \in {<<>>, <<"a", "b">>}}

\* MSelectionList.merge(sel, strategy) on the copy of the active list
merge(currentSel, sel, add, deselect, toggle) ==
    IF add THEN currentSel \cup sel
    ELSE IF deselect THEN currentSel \ sel
    ELSE IF toggle THEN (currentSel \ sel) \cup (sel \ currentSel)
    ELSE sel

select_set(w, newSel, oldSel) ==
    LET id == NewId(w)
        w1 == ProxyModifier_new(MGlobal_setActiveSelectionList(w, newSel), "setActiveSelectionList",
                                [NoArg EXCEPT !.s = newSel], "None", [NoArg EXCEPT !.s = oldSel])
    IN  apiUndo(Ok(w1, ModRet(id)))

select(w, objects, add, deselect, toggle, clear) ==
    LET oldSel == w.host.active IN
    IF objects.kind = "None" /\ clear THEN select_set(w, {}, oldSel)
    ELSE IF objects.kind = "None" THEN Raise(w, "TypeError")
    ELSE IF objects.kind = "MSelectionList"
    THEN select_set(w, merge(oldSel, Range(objects.items), add, deselect, toggle), oldSel)
    ELSE LET l == Iterator_loop(Iterator_new(objects.items), <<>>)
         IN  IF l.err # "none" THEN Raise(w, l.err)
             ELSE select_set(w, merge(oldSel, Range(l.used), add, deselect, toggle), oldSel)

\* ObjectSet._processList and MFnSet.addMembers: members is a list or an
\* MSelectionList
ObjectSet_addMembers(w, members) ==
    IF members.kind = "MSelectionList"
    THEN Ok([w EXCEPT !.host.members = @ \cup Range(members.items)], NoRet)
    ELSE LET l == Iterator_loop(Iterator_new(members.items), <<>>)
         IN  IF l.err # "none" THEN Raise(w, l.err)
             ELSE Ok([w EXCEPT !.host.members = @ \cup Range(l.used)], NoRet)

\* ObjectSet.removeMembers hands the list to MFnSet.addMembers
ObjectSet_removeMembers(w, members) == ObjectSet_addMembers(w, members)

\* ---------------------------------------------------------------- the machine
TheWorld ==
    [val |-> val, locked |-> locked, conn |-> conn, nodes |-> nodes, par |-> par,
     keyable |-> keyable, chbox |-> chbox,
     mods |-> mods, ledger |-> ledger, cursor |-> cursor, made |-> made, host |-> host,
     ev |-> <<>>]

\* a modifier made by an operation that nothing refers to afterwards is dropped
Referenced(w, id) == id = batch \/ \E i \in 1..Len(w.ledger) : w.ledger[i].id = id

RECURSIVE Collect(_)
Collect(w) ==
    IF Len(w.mods) > 0 /\ ~Referenced(w, Len(w.mods))
    THEN Collect([w EXCEPT !.mods = SubSeq(@, 1, Len(@) - 1)])
    ELSE w

Count(ev, e) == Cardinality({i \in 1..Len(ev) : ev[i] = e})

Store(r) ==
    LET w == Collect(r.w) IN
    /\ val' = w.val
    /\ conn' = w.conn
    /\ nodes' = w.nodes
    /\ par' = w.par
    /\ keyable' = w.keyable
    /\ chbox' = w.chbox
    /\ mods' = w.mods
    /\ ledger' = w.ledger
    /\ cursor' = w.cursor
    /\ made' = w.made
    /\ host' = w.host
    /\ steps' = steps + 1
    /\ UNCHANGED <<rlast, fac, mfnAttr, locked, uiUnit, comp, multiVars, resolverVars>>

\* the readable scene
Scene(v, c, p, n, k, cb) == [val |-> v, conn |-> c, par |-> p, nodes |-> n, keyable |-> k, chbox |-> cb]
SceneNow == Scene(val, conn, par, nodes, keyable, chbox)
NoScene == Scene([p \in ScalarPlugs |-> 0], [d \in DstPlugs |-> Null], [n \in DagNodes |-> ""],
                 {}, [p \in FlagPlugs |-> FALSE], [p \in FlagPlugs |-> FALSE])
NoPrev == [op |-> "none", ret |-> "none", err |-> "none", scene0 |-> NoScene]

\* what the operation was given, returned and did, with the state it started in;
\* an undo or redo also keeps what the operation before it was
RecordV(op, r, m, a, b, f, v) ==
    last' = [op |-> op, batched |-> m # 0, ret |-> r.ret.kind, id |-> r.ret.id,
             err |-> r.err, ev |-> r.w.ev, a |-> a, b |-> b, flag |-> f, v |-> v,
             host0 |-> host,
             ledger0 |-> ledger, cursor0 |-> cursor, nmods0 |-> Len(mods),
             scene0 |-> SceneNow, m |-> m,
             prev |-> IF op \in {"undo", "redo"}
                      THEN [op |-> last.op, ret |-> last.ret, err |-> last.err,
                            scene0 |-> last.scene0]
                      ELSE NoPrev]

Record(op, r, m, a, b, f) == RecordV(op, r, m, a, b, f, <<>>)

NoLast ==
    [op |-> "none", batched |-> FALSE, ret |-> "none", id |-> 0, err |-> "none",
     ev |-> <<>>, a |-> Null, b |-> Null, flag |-> FALSE, v |-> <<>>, host0 |-> NoHost,
     ledger0 |-> <<>>,
     cursor0 |-> 0, nmods0 |-> 0, scene0 |-> NoScene, m |-> 0, prev |-> NoPrev]

Batches == {0} \cup (IF batch = 0 THEN {} ELSE {batch})
Vals == {0, 1}
Vecs == {<<1, 1, 1>>, <<1, 1>>, <<3, 2, 1, 0>>}

CanStep == steps < MaxSteps

SetAttr ==
    /\ CanStep
    /\ \E m \in Batches :
       \E plug \in {ChannelPlug("translate", 1)}, v \in Vals :
          \E r \in {setAttr(TheWorld, plug, v, "None", m)} :
              Store(r) /\ RecordV("setAttr", r, m, plug, Null, FALSE, <<v>>)
    /\ UNCHANGED batch

SetAttrCompound ==
    /\ CanStep
    /\ \E m \in Batches, v \in Vecs :
          \E r \in {setAttr(TheWorld, CompoundPlug, v, "None", m)} :
              Store(r) /\ RecordV("setAttrCompound", r, m, CompoundPlug, Null, Len(v) < 3, v)
    /\ UNCHANGED batch

SetAttrGeneric ==
    /\ CanStep
    /\ \E m \in Batches, v \in Vals :
          \E r \in {setAttr(TheWorld, GenericPlug, v, "None", m)} :
              Store(r) /\ RecordV("setAttr", r, m, GenericPlug, Null, FALSE, <<v>>)
    /\ UNCHANGED batch

ReadPlugs == {ChannelPlug("translate", 1), ChannelPlug("scale", 1), CompoundPlug, DstPlug, GenericPlug}

GetAttr ==
    /\ CanStep
    /\ \E plug \in ReadPlugs :
          \E g \in {getAttr(TheWorld, plug, "None", uiUnit)} :
              /\ Store(Ok(TheWorld, [kind |-> g.kind, id |-> 0]))
              /\ RecordV("getAttr", [w |-> TheWorld, ret |-> [kind |-> g.kind, id |-> 0], err |-> g.err],
                         0, plug, Null, FALSE, g.v)
    /\ UNCHANGED batch

\* setAttr(plug, getAttr(plug)): the value just read is written back
WriteBack ==
    /\ CanStep
    /\ \E m \in Batches, plug \in ReadPlugs :
          \E g \in {getAttr(TheWorld, plug, "None", uiUnit)} :
              /\ g.err = "none"
              /\ g.kind = "value"
              /\ \E r \in {setAttr(TheWorld, plug, IF isCompound(plug) THEN g.v ELSE g.v[1], "None", m)} :
                     Store(r) /\ RecordV("writeBack", r, m, plug, Null, FALSE, g.v)
    /\ UNCHANGED batch

\* the user changes the working unit of the UI
SetUiUnit ==
    /\ CanStep
    /\ \E u \in Units \ {uiUnit} : uiUnit' = u
    /\ steps' = steps + 1
    /\ last' = [NoLast EXCEPT !.op = "setUiUnit"]
    /\ UNCHANGED <<val, locked, conn, nodes, par, keyable, chbox, mods, ledger, cursor, batch, made>>
    /\ UNCHANGED <<rlast, fac, mfnAttr, host, comp, multiVars, resolverVars>>

ConnectAttr ==
    /\ CanStep
    /\ \E m \in Batches, s \in SrcPlugs, force \in BOOLEAN :
          \E r \in {connectAttr(TheWorld, s, DstPlug, force, m)} :
              Store(r) /\ Record("connectAttr", r, m, s, DstPlug, force)
    /\ UNCHANGED batch

DisconnectAttr ==
    /\ CanStep
    /\ \E m \in Batches :
          \E r \in {disconnectAttr(TheWorld, <<DstPlug>>, m)} :
              Store(r) /\ Record("disconnectAttr", r, m, Null, DstPlug, FALSE)
    /\ UNCHANGED batch

CreateNode ==
    /\ CanStep
    /\ made < Len(NewNodes)
    /\ \E m \in Batches, pObj \in {World, "p"}, isDag \in {"None", "True"} :
          \E r \in {createNode(TheWorld, pObj, m, isDag)} :
              Store(r) /\ RecordV("createNode", r, m, Null, Null, FALSE, <<pObj, isDag>>)
    /\ UNCHANGED batch

AllOnes == <<1, 1, 1>>
Matrix1 == [translate |-> AllOnes, rotate |-> AllOnes, scale |-> AllOnes, shear |-> AllOnes]
Translate1 == [NoMatrix EXCEPT !.translate = AllOnes]

Transform ==
    /\ CanStep
    /\ \E m \in Batches, useMatrix \in BOOLEAN :
          \E r \in {IF useMatrix THEN transform(TheWorld, NoMatrix, Matrix1, m)
                   ELSE transform(TheWorld, Translate1, NoMatrix, m)} :
              Store(r) /\ Record("transform", r, m, Null, Null, useMatrix)
    /\ UNCHANGED batch

Parent ==
    /\ CanStep
    /\ \E m \in Batches, relative \in BOOLEAN :
          \E r \in {parent(TheWorld, "t", "p", relative, Matrix1, m)} :
              Store(r) /\ Record("parent", r, m, Null, Null, relative)
    /\ UNCHANGED batch

DependNodeCreate ==
    /\ CanStep
    /\ made < Len(NewNodes)
    /\ \E m \in Batches :
          \E r \in {DependNode_create(TheWorld, m)} :
              Store(r) /\ Record("DependNode.create", r, m, Null, Null, FALSE)
    /\ UNCHANGED batch

SetKeyable ==
    /\ CanStep
    /\ \E value \in BOOLEAN :
          \E r \in {Attribute_setKeyable(TheWorld, FlagPlug, value)} :
              Store(r) /\ Record("setKeyable", r, 0, FlagPlug, Null, value)
    /\ UNCHANGED batch

SetDisplayable ==
    /\ CanStep
    /\ \E value \in BOOLEAN :
          \E r \in {Attribute_setDisplayable(TheWorld, FlagPlug, value)} :
              Store(r) /\ Record("setDisplayable", r, 0, FlagPlug, Null, value)
    /\ UNCHANGED batch

Select ==
    /\ CanStep
    /\ Len(mods) < MaxSelects
    /\ \E objects \in ObjectInputs, add \in BOOLEAN, deselect \in BOOLEAN, toggle \in BOOLEAN,
          clear \in BOOLEAN :
          \E r \in {select(TheWorld, objects, add, deselect, toggle, clear)} :
              Store(r) /\ RecordV("select", r, 0, Null, Null, clear,
                                  <<objects, [add |-> add, deselect |-> deselect, toggle |-> toggle]>>)
    /\ UNCHANGED batch

AddMembers ==
    /\ CanStep
    /\ \E members \in ObjectInputs \ {NoObjects} :
          \E r \in {ObjectSet_addMembers(TheWorld, members)} :
              Store(r) /\ RecordV("addMembers", r, 0, Null, Null, FALSE, <<members>>)
    /\ UNCHANGED batch

RemoveMembers ==
    /\ CanStep
    /\ \E members \in ObjectInputs \ {NoObjects} :
          \E r \in {ObjectSet_removeMembers(TheWorld, members)} :
              Store(r) /\ RecordV("removeMembers", r, 0, Null, Null, FALSE, <<members>>)
    /\ UNCHANGED batch

\* the caller makes a modifier to pass as _modifier ...
CallerNewBatch ==
    /\ CanStep
    /\ batch = 0
    /\ batch' = Len(mods) + 1
    /\ mods' = Append(mods, NewModifier)
    /\ steps' = steps + 1
    /\ last' = [NoLast EXCEPT !.op = "newBatch"]
    /\ UNCHANGED <<val, locked, conn, nodes, par, keyable, chbox, ledger, cursor, made>>
    /\ UNCHANGED <<rlast, fac, mfnAttr, host, uiUnit, comp, multiVars, resolverVars>>

\* ... and later finalizes it and registers it, as the docstrings tell it to
CallerFinish ==
    /\ CanStep
    /\ batch # 0
    /\ \E r \in {apiUndo(Finish(Ok(TheWorld, NoRet), batch, TRUE))} :
           Store(r) /\ Record("callerFinish", r, batch, Null, Null, FALSE)
    /\ batch' = 0

\* positions a vertex is given
Points == {0, 1, 2}

SetPoint ==
    /\ CanStep
    /\ \E point \in Points :
          \E r \in {Mesh_setPoint(TheWorld, point)} :
              Store(r) /\ RecordV("setPoint", r, 0, Null, Null, FALSE, <<point>>)
    /\ UNCHANGED batch

SetPosition ==
    /\ CanStep
    /\ \E point \in Points :
          \E r \in {ComponentPoint_setPosition(TheWorld, point)} :
              Store(r) /\ RecordV("setPosition", r, 0, Null, Null, FALSE, <<point>>)
    /\ UNCHANGED batch

HostUndo ==
    /\ CanStep
    /\ cursor > 0
    /\ \E r \in {Ok(hostUndo(TheWorld), NoRet)} :
           Store(r) /\ Record("undo", r, 0, Null, Null, FALSE)
    /\ UNCHANGED batch

HostRedo ==
    /\ CanStep
    /\ cursor < Len(ledger)
    /\ \E r \in {hostRedo(TheWorld)} :
           Store(r) /\ Record("redo", r, 0, Null, Null, FALSE)
    /\ UNCHANGED batch

\* ------------------------------------------------- api.MultiModifier
Members == {"m1", "m2", "m3"}

RECURSIVE SeqsUpTo(_)
SeqsUpTo(n) ==
    IF n = 0 THEN {<<>>}
    ELSE LET shorter == SeqsUpTo(n - 1)
         IN  shorter \cup {Append(q, m) : q \in {x \in shorter : Len(x) = n - 1}, m \in Members}

Reverse(q) == [i \in 1..Len(q) |-> q[Len(q) + 1 - i]]

\* while not it.isDone(): it.currentItem().<f>(); it.next()
RECURSIVE MultiModifier_loop(_, _, _, _)
MultiModifier_loop(it, f, bad, calls) ==
    IF Iterator_isDone(it) THEN [calls |-> calls, err |-> "none"]
    ELSE IF ~Iterator_inRange(it) THEN [calls |-> calls, err |-> "IndexError"]
    ELSE LET m == Iterator_currentItem(it)
             c == Append(calls, <<m, f>>)
         IN  IF m \in bad THEN [calls |-> c, err |-> "RuntimeError"]
             ELSE MultiModifier_loop(Iterator_next(it), f, bad, c)

MultiModifier_getIterator(ms) == Iterator_new(ms)

MultiModifier_doIt(ms, bad) == MultiModifier_loop(MultiModifier_getIterator(ms), "doIt", bad, <<>>)

MultiModifier_undoIt_Reversed(ms, bad) ==
    MultiModifier_loop(MultiModifier_getIterator(Reverse(ms)), "undoIt", bad, <<>>)

MultiModifier_undoIt(ms, bad) == MultiModifier_loop(MultiModifier_getIterator(ms), "undoIt", bad, <<>>)

MultiModifier_append(ms, modifier) == Append(ms, modifier)

MultiModifier_extend(ms, iterable) == ms \o iterable

NoMLast == [op |-> "", calls |-> <<>>, err |-> "none", before |-> <<>>, added |-> <<>>]

MultiAppend ==
    /\ Len(modifiers) < MaxMembers
    /\ \E m \in Members :
        /\ modifiers' = MultiModifier_append(modifiers, m)
        /\ mlast' = [NoMLast EXCEPT !.op = "append", !.before = modifiers, !.added = <<m>>]
    /\ UNCHANGED <<rlast, fac, mfnAttr, commandVars, uiUnit, comp, raising, resolverVars>>

MultiExtend ==
    /\ \E q \in SeqsUpTo(2) :
        /\ Len(modifiers) + Len(q) <= MaxMembers
        /\ modifiers' = MultiModifier_extend(modifiers, q)
        /\ mlast' = [NoMLast EXCEPT !.op = "extend", !.before = modifiers, !.added = q]
    /\ UNCHANGED <<rlast, fac, mfnAttr, commandVars, uiUnit, comp, raising, resolverVars>>

MultiDoIt ==
    /\ LET r == MultiModifier_doIt(modifiers, raising)
       IN  mlast' = [NoMLast EXCEPT !.op = "doIt", !.calls = r.calls, !.err = r.err,
                                    !.before = modifiers]
    /\ UNCHANGED <<rlast, fac, mfnAttr, commandVars, uiUnit, comp, modifiers, raising, resolverVars>>

MultiUndoIt ==
    /\ LET r == MultiModifier_undoIt(modifiers, raising)
       IN  mlast' = [NoMLast EXCEPT !.op = "undoIt", !.calls = r.calls, !.err = r.err,
                                    !.before = modifiers]
    /\ UNCHANGED <<rlast, fac, mfnAttr, commandVars, uiUnit, comp, modifiers, raising, resolverVars>>

\* ------------------------------------------------- general.PyObjectFactory
\* an API handle is known by its apiType; hasFn answers from the function sets
\* the host gives that type
NodeFns == {"kDependencyNode"}
DagFns == NodeFns \cup {"kDagNode"}
ShapeFns == DagFns \cup {"kShape"}
CompFns == {"kComponent"}
AttrFns == {"kAttribute"}

FnSet(t) ==
    CASE t = "kInvalid" -> {}
      [] t = "kMatrixData" -> {"kData", "kMatrixData"}
      [] t = "kDependencyNode" -> NodeFns
      [] t = "kSet" -> NodeFns \cup {"kSet"}
      [] t = "kMultiplyDivide" -> NodeFns \cup {"kMultiplyDivide"}
      [] t = "kDagNode" -> DagFns
      [] t = "kTransform" -> DagFns \cup {"kTransform"}
      [] t = "kJoint" -> DagFns \cup {"kTransform", "kJoint"}
      [] t = "kCamera" -> ShapeFns \cup {"kCamera"}
      [] t = "kMesh" -> ShapeFns \cup {"kMesh"}
      [] t = "kNurbsCurve" -> ShapeFns \cup {"kNurbsCurve"}
      [] t = "kNurbsSurface" -> ShapeFns \cup {"kNurbsSurface"}
      [] t = "kLattice" -> ShapeFns \cup {"kLattice"}
      [] t = "kMeshVertComponent" -> CompFns \cup {"kSingleIndexedComponent", "kMeshVertComponent"}
      [] t = "kMeshEdgeComponent" -> CompFns \cup {"kSingleIndexedComponent", "kMeshEdgeComponent"}
      [] t = "kMeshPolygonComponent" -> CompFns \cup {"kSingleIndexedComponent", "kMeshPolygonComponent"}
      [] t = "kMeshVtxFaceComponent" -> CompFns \cup {"kDoubleIndexedComponent", "kMeshVtxFaceComponent"}
      [] t = "kCurveCVComponent" -> CompFns \cup {"kSingleIndexedComponent", "kCurveCVComponent"}
      [] t = "kSurfaceCVComponent" -> CompFns \cup {"kDoubleIndexedComponent", "kSurfaceCVComponent"}
      [] t = "kLatticeComponent" -> CompFns \cup {"kTripleIndexedComponent", "kLatticeComponent"}
      [] t = "kNumericAttribute" -> AttrFns \cup {"kNumericAttribute"}
      [] t = "kUnitAttribute" -> AttrFns \cup {"kUnitAttribute"}
      [] t = "kCompoundAttribute" -> AttrFns \cup {"kCompoundAttribute"}
      [] t = "kAttribute3Double" -> AttrFns \cup {"kNumericAttribute", "kCompoundAttribute"}
      [] t = "kTypedAttribute" -> AttrFns \cup {"kTypedAttribute"}
      [] t = "kMessageAttribute" -> AttrFns \cup {"kMessageAttribute"}

ApiTypes ==
    {"kInvalid", "kMatrixData", "kDependencyNode", "kSet", "kMultiplyDivide", "kDagNode",
     "kTransform", "kJoint", "kCamera", "kMesh", "kNurbsCurve", "kNurbsSurface", "kLattice",
     "kMeshVertComponent", "kMeshEdgeComponent", "kMeshPolygonComponent",
     "kMeshVtxFaceComponent", "kCurveCVComponent", "kSurfaceCVComponent", "kLatticeComponent",
     "kNumericAttribute", "kUnitAttribute", "kCompoundAttribute", "kAttribute3Double",
     "kTypedAttribute", "kMessageAttribute"}

hasFn(apiObj, fn) == fn \in FnSet(apiObj)

DEPENDNODE == "kDependencyNode"
DAGNODE == "kDagNode"
ATTRIBUTE == "kAttribute"
COMPONENT == "kComponent"
TypeScopes == {DAGNODE, DEPENDNODE, COMPONENT, ATTRIBUTE}

dgTypes_ == ("kDependencyNode" :> "DependNode") @@ ("kSet" :> "ObjectSet")

dagTypes_ ==
    ("kDagNode" :> "DagNode") @@ ("kTransform" :> "Transform") @@ ("kJoint" :> "Joint")
    @@ ("kMesh" :> "Mesh") @@ ("kNurbsCurve" :> "NurbsCurve")
    @@ ("kNurbsSurface" :> "NurbsSurface") @@ ("kLattice" :> "LatticeShape")

compTypes_ ==
    ("kMeshVertComponent" :> "MeshVertex") @@ ("kMeshEdgeComponent" :> "MeshEdge")
    @@ ("kMeshPolygonComponent" :> "MeshFace") @@ ("kCurveCVComponent" :> "NurbsCurveCV")
    @@ ("kSurfaceCVComponent" :> "NurbsSurfaceCV") @@ ("kLatticeComponent" :> "LatticePoint")

plugTypes_ ==
    ("kNumericAttribute" :> "NumericAttribute") @@ ("kUnitAttribute" :> "UnitAttribute")
    @@ ("kCompoundAttribute" :> "CompoundAttribute")

\* the orders in which a dict of the three plug types can be iterated
PlugOrders ==
    {o \in [1..3 -> DOMAIN plugTypes_] : \A i, j \in 1..3 : i # j => o[i] # o[j]}

\* the order only shows on an object that has more than one of the function sets
IterationOrders(apiObj) ==
    IF Cardinality(FnSet(apiObj) \cap DOMAIN plugTypes_) > 1 THEN PlugOrders
    ELSE {CHOOSE o \in PlugOrders : TRUE}

\* apiObj.apiType (the method, not its result) never equals an MFn constant, so
\* the first test never succeeds; then the first type of the dict, in its
\* iteration order, whose function set the object has
getPlugType_(apiObj, order) ==
    LET hits == {i \in 1..3 : hasFn(apiObj, order[i])}
    IN  IF hits = {} THEN "Attribute"
        ELSE plugTypes_[order[CHOOSE i \in hits : \A j \in hits : i <= j]]

defaultClasses_ ==
    (DEPENDNODE :> "DependNode") @@ (DAGNODE :> "DagNode") @@ (COMPONENT :> "Component")
    @@ (ATTRIBUTE :> "Attribute")

get(dic, key) == IF key \in DOMAIN dic THEN dic[key] ELSE "None"

classFromMFn(mfn, typeScope) ==
    LET dic == IF typeScope = DEPENDNODE THEN dgTypes_
               ELSE IF typeScope = DAGNODE THEN dagTypes_
               ELSE IF typeScope = ATTRIBUTE THEN plugTypes_
               ELSE compTypes_
    IN  get(dic, mfn)

ProbeScope_NodeFirst(apiObj) ==
    IF hasFn(apiObj, "kAttribute") THEN ATTRIBUTE
    ELSE IF hasFn(apiObj, "kComponent") THEN COMPONENT
    ELSE IF hasFn(apiObj, "kDependencyNode") THEN DEPENDNODE
    ELSE IF hasFn(apiObj, "kDagNode") THEN DAGNODE
    ELSE "None"

ProbeScope(apiObj) ==
    IF hasFn(apiObj, "kAttribute") THEN ATTRIBUTE
    ELSE IF hasFn(apiObj, "kComponent") THEN COMPONENT
    ELSE IF hasFn(apiObj, "kDagNode") THEN DAGNODE
    ELSE IF hasFn(apiObj, "kDependencyNode") THEN DEPENDNODE
    ELSE "None"

classFromApiObject(apiObj, typeScope, order) ==
    LET scope == IF typeScope = "None" THEN ProbeScope(apiObj) ELSE typeScope
    IN  IF scope = "None" THEN [cls |-> "None", scope |-> "None", err |-> "TypeError"]
        ELSE LET c == IF scope = ATTRIBUTE THEN getPlugType_(apiObj, order)
                      ELSE classFromMFn(apiObj, scope)
             IN  [cls |-> IF c = "None" THEN defaultClasses_[scope] ELSE c,
                  scope |-> scope, err |-> "none"]

\* the class statements: each wrapper class and the class it derives from; the
\* last four are classes a user derives and registers as virtual subclasses
LibClasses ==
    {"Attribute", "NumericAttribute", "UnitAttribute", "CompoundAttribute", "DependNode",
     "DagNode", "ObjectSet", "Transform", "Joint", "GeometryShape", "Mesh", "NurbsCurve",
     "NurbsSurface", "LatticeShape", "Component", "ComponentPoint", "Component1D",
     "Component2D", "Component3D", "MeshVertex", "MeshFace", "MeshEdge", "NurbsCurveCV",
     "NurbsSurfaceCV", "LatticePoint"}

VClasses == {"UserTransform", "UserTransformSub", "UserTransformAlt", "UserDag"}

Base(c) ==
    CASE c \in {"Attribute", "DependNode", "Component"} -> "PyObject"
      [] c \in {"NumericAttribute", "CompoundAttribute"} -> "Attribute"
      [] c = "UnitAttribute" -> "NumericAttribute"
      [] c \in {"DagNode", "ObjectSet"} -> "DependNode"
      [] c \in {"Transform", "GeometryShape", "UserDag"} -> "DagNode"
      [] c \in {"Joint", "UserTransform", "UserTransformAlt"} -> "Transform"
      [] c = "UserTransformSub" -> "UserTransform"
      [] c \in {"Mesh", "NurbsCurve", "NurbsSurface", "LatticeShape"} -> "GeometryShape"
      [] c \in {"ComponentPoint", "Component1D", "Component2D", "Component3D"} -> "Component"
      [] c \in {"MeshVertex", "MeshFace", "MeshEdge", "NurbsCurveCV"} -> "Component1D"
      [] c = "NurbsSurfaceCV" -> "Component2D"
      [] c = "LatticePoint" -> "Component3D"
      [] OTHER -> "object"

RECURSIVE IsA(_, _)
IsA(c, b) == c = b \/ (c \notin {"object", "PyObject"} /\ IsA(Base(c), b))

\* ------------------------------------------------- general.UserSubclassManager
\* what a handle's node_type attribute holds ("" : it has none)
Tags == {"", "UserTransform", "UserTransformSub", "UserDag"}

\* vClass._isVirtual(mobject): the node_type attribute names the class
isVirtual_(vClass, tag) ==
    CASE vClass = "UserTransform" -> tag = "UserTransform"
      [] vClass = "UserTransformSub" -> tag = "UserTransformSub"
      [] vClass = "UserTransformAlt" -> tag = "UserTransform"
      [] vClass = "UserDag" -> tag = "UserDag"

Has(q, x) == \E i \in 1..Len(q) : q[i] = x

\* the first class of vClass's MRO that general.py defines
RECURSIVE ParentClass(_)
ParentClass(vClass) == IF vClass \in LibClasses THEN vClass ELSE ParentClass(Base(vClass))

UserSubclassManager_register_Always(pd, vc, vClass) ==
    [parentDict |-> [pd EXCEPT ![ParentClass(vClass)] = Append(@, vClass)],
     vClasses |-> Append(vc, vClass)]

UserSubclassManager_register(pd, vc, vClass) ==
    LET parentCls == ParentClass(vClass)
    IN  [parentDict |-> [pd EXCEPT ![parentCls] = IF Has(@, vClass) THEN @ ELSE Append(@, vClass)],
         vClasses |-> IF Has(vc, vClass) THEN vc ELSE Append(vc, vClass)]

getFromParentClass(pd, parentCls) == IF parentCls \in DOMAIN pd THEN pd[parentCls] ELSE <<>>

isRegistered(vc, vClass) == Has(vc, vClass)

\* PyObject.__new__ given a handle: the first virtual class registered under
\* cls itself whose _isVirtual accepts the handle, else cls
PyObject_new(cls, tag, pd) ==
    LET userCls == getFromParentClass(pd, cls)
        hits == {i \in 1..Len(userCls) : isVirtual_(userCls[i], tag)}
    IN  IF hits = {} THEN cls ELSE userCls[CHOOSE i \in hits : \A j \in hits : i <= j]

NoRegistry == [c \in LibClasses |-> <<>>]

\* called: the classes register has been called with
NoRLast ==
    [op |-> "none", cls |-> "None", err |-> "none", called |-> {}, called0 |-> {},
     parentDict0 |-> NoRegistry, vClasses0 |-> <<>>]

Register ==
    /\ \E vClass \in VClasses :
          \E r \in {UserSubclassManager_register(parentDict, vClasses, vClass)} :
              /\ parentDict' = r.parentDict /\ vClasses' = r.vClasses
              /\ rlast' = [op |-> "register", cls |-> vClass, err |-> "none",
                           called |-> rlast.called \cup {vClass}, called0 |-> rlast.called,
                           parentDict0 |-> parentDict, vClasses0 |-> vClasses]
    /\ UNCHANGED <<fac, mfnAttr, commandVars, uiUnit, comp, multiVars, resolved, wrapperVars>>

\* the keyword forms of PyObjectFactory(...): which API object the caller holds
Vias == {"MPlug", "MObjectHandle", "MObject", "MDagPath", "tuple"}

ViaFits(via, apiObj) ==
    CASE via = "MPlug" -> hasFn(apiObj, "kAttribute")
      [] via = "MDagPath" -> hasFn(apiObj, "kDagNode")
      [] via = "tuple" -> hasFn(apiObj, "kComponent")
      [] OTHER -> TRUE

\* the keywords the wrapper is built with
BuildKeys(via, apiObj) ==
    {"MObjectHandle"}
    \cup (IF via = "MPlug" THEN {"MPlug"} ELSE {})
    \cup (IF via \in {"MDagPath", "tuple"} \/ (via = "MObject" /\ hasFn(apiObj, "kDagNode"))
          THEN {"MDagPath"} ELSE {})

PyObjectFactory(via, apiObj, tag, objectType, order) ==
    LET c == classFromApiObject(apiObj, objectType, order)
    IN  [api |-> apiObj, tag |-> tag, hint |-> objectType, via |-> via, cls |-> c.cls,
         scope |-> c.scope, err |-> c.err,
         keys |-> IF c.err = "none" THEN BuildKeys(via, apiObj) ELSE {},
         inst |-> IF c.err = "none" THEN PyObject_new(c.cls, tag, parentDict) ELSE "None"]

NoResolved ==
    [api |-> "", tag |-> "", hint |-> "None", via |-> "", cls |-> "None", scope |-> "None",
     err |-> "none", keys |-> {}, inst |-> "None"]

Resolve ==
    /\ \E apiObj \in ApiTypes, via \in Vias, objectType \in TypeScopes \cup {"None"} :
        /\ ViaFits(via, apiObj)
        /\ \E order \in IterationOrders(apiObj) :
               resolved' = PyObjectFactory(via, apiObj, "", objectType, order)
    /\ UNCHANGED <<rlast, fac, mfnAttr, commandVars, uiUnit, comp, multiVars, registryVars, wrapperVars>>

\* PyObject.__new__ given a class and the keywords of a construction call
PyObject_construct(cls, keys, tag, pd, vc) ==
    IF keys \cap {"MDagPath", "MObject", "MObjectHandle", "MPlug"} = {}
    THEN IF isRegistered(vc, cls)
         THEN [inst |-> cls, keys |-> {"MObjectHandle"}, err |-> "none"]
         ELSE [inst |-> "None", keys |-> keys, err |-> "RuntimeError"]
    ELSE IF "MObjectHandle" \notin keys
    THEN [inst |-> "None", keys |-> keys, err |-> "KeyError"]
    ELSE [inst |-> PyObject_new(cls, tag, pd), keys |-> keys, err |-> "none"]

\* cls(name) or cls(): a wrapper class called with no API object
Construct ==
    /\ \E cls \in VClasses \cup {"Transform"}, keys \in {{}, {"name"}} :
          \E r \in {PyObject_construct(cls, keys, "", parentDict, vClasses)} :
              rlast' = [rlast EXCEPT !.op = "construct", !.cls = cls, !.err = r.err,
                                     !.called0 = rlast.called,
                                     !.parentDict0 = parentDict, !.vClasses0 = vClasses]
    /\ UNCHANGED <<fac, mfnAttr, commandVars, uiUnit, comp, multiVars, resolverVars>>

\* the wrappers a wrapper builds: attr[i], attr.child, attr.parent(), mesh.vtx[i]
NavPaths == {"getitem", "buildAttr", "parent", "component"}
NavClass(path) == IF path = "component" THEN "MeshVertex" ELSE "Attribute"
NavFrom(path) == IF path = "component" THEN "Mesh" ELSE "Attribute"
NavKeys(path) ==
    CASE path = "getitem" -> {"MPlug", "node"}
      [] path = "buildAttr" -> {"MPlug", "node", "parent"}
      [] path = "parent" -> {"MPlug", "node"}
      [] path = "component" -> {"MDagPath", "MObjectHandle", "node"}

\* a wrapper the factory has returned is asked for another wrapper
Navigate ==
    /\ \E path \in NavPaths :
        /\ IsA(resolved.inst, NavFrom(path))
        /\ "MObjectHandle" \in resolved.keys
        /\ \E r \in {PyObject_construct(NavClass(path), NavKeys(path), "", parentDict, vClasses)} :
               resolved' = [api |-> IF path = "component" THEN "kMeshVertComponent" ELSE resolved.api,
                            tag |-> "", hint |-> "None", via |-> path, cls |-> NavClass(path),
                            scope |-> "None", err |-> r.err, keys |-> r.keys, inst |-> r.inst]
    /\ UNCHANGED <<rlast, fac, mfnAttr, commandVars, uiUnit, comp, multiVars, registryVars, wrapperVars>>

\* wrapping the handle of a DAG node that may carry a node_type attribute
WrapTypes == {"kTransform", "kJoint", "kMesh"}

Wrap ==
    /\ \E apiObj \in WrapTypes, tag \in Tags :
          resolved' = PyObjectFactory("MObjectHandle", apiObj, tag, "None",
                                      CHOOSE o \in PlugOrders : TRUE)
    /\ UNCHANGED <<rlast, fac, mfnAttr, commandVars, uiUnit, comp, multiVars, registryVars, wrapperVars>>

\* ------------------------------------------------- node wrappers
\* three wrapper instances, each on a node of its own; nXform has a shape
WrapperClass == ("nSet" :> "ObjectSet") @@ ("nXform" :> "Transform") @@ ("nJoint" :> "Joint")
NodeWrappers == DOMAIN WrapperClass
AttrNames == {"message", "inMesh", "nope"}
NodeAttrs(w) == {"message"}
ShapeAttrs(w) == IF w = "nXform" THEN {"message", "inMesh"} ELSE {}
numShape(w) == IF w = "nXform" THEN 1 ELSE 0

\* what the host does with the handle of a node that no longer exists
DeadOutcomes == {"answers", "RuntimeError"}

AttrOk(c, n, ret, q) == [cache |-> c, nattr |-> n, ret |-> ret, err |-> "none", q |-> q]
AttrErr(c, n, e, q) == [cache |-> c, nattr |-> n, ret |-> 0, err |-> e, q |-> q]

\* DependNode._buildAttr on a node holding the attributes has: the number of
\* the new attribute wrapper, 0 for None
DependNode_buildAttr(has, name, n) == IF name \in has THEN n + 1 ELSE 0

\* DependNode.__getattr__: builds, stores on the instance, returns
DependNode_getattr(c, n, w, name) ==
    LET attr == DependNode_buildAttr(NodeAttrs(w), name, n)
    IN  IF attr # 0 THEN AttrOk([c EXCEPT ![w][name] = attr], attr, attr, 1)
        ELSE AttrErr(c, n, "AttributeError", 1)

\* Transform.__getattr__ over Transform._buildAttr: the node, then its shape
\* through a shape wrapper made for the occasion; nothing is stored
Transform_getattr(c, n, w, name) ==
    LET attr == DependNode_buildAttr(NodeAttrs(w), name, n)
    IN  IF attr # 0 THEN AttrOk(c, attr, attr, 1)
        ELSE IF numShape(w) > 0
             THEN LET sattr == DependNode_buildAttr(ShapeAttrs(w), name, n)
                  IN  IF sattr # 0 THEN AttrOk(c, sattr, sattr, 2)
                      ELSE AttrErr(c, n, "AttributeError", 2)
             ELSE AttrErr(c, n, "AttributeError", 1)

\* the class whose __getattr__ a wrapper of class cls runs
GetattrClass(cls) == IF IsA(cls, "Transform") THEN "Transform" ELSE "DependNode"

\* getattr(wrapper, name): the instance's own entry when there is one, else
\* __getattr__, which asks the host
getattr(c, n, w, name, isAlive, dead) ==
    IF c[w][name] # 0 THEN AttrOk(c, n, c[w][name], 0)
    ELSE IF ~isAlive /\ dead = "RuntimeError" THEN AttrErr(c, n, "RuntimeError", 1)
    ELSE IF GetattrClass(WrapperClass[w]) = "Transform" THEN Transform_getattr(c, n, w, name)
    ELSE DependNode_getattr(c, n, w, name)

\* PyObject.apimobject: the MObject of the stored handle, whatever its state
apimobject(c, n, w) == AttrOk(c, n, 1, 0)

\* DependNode.name: MFnDependencyNode(apimobject()).name()
DependNode_name(c, n, w, isAlive, dead) ==
    IF ~isAlive /\ dead = "RuntimeError" THEN AttrErr(c, n, "RuntimeError", 1)
    ELSE AttrOk(c, n, 1, 1)

NoALast ==
    [op |-> "", w |-> "", name |-> "", ret |-> 0, err |-> "none", q |-> 0, wasAlive |-> TRUE,
     cache0 |-> [w \in NodeWrappers |-> [a \in AttrNames |-> 0]]]

RecordA(op, w, name, r) ==
    /\ cache' = r.cache
    /\ nattr' = r.nattr
    /\ alast' = [op |-> op, w |-> w, name |-> name, ret |-> r.ret, err |-> r.err, q |-> r.q,
                 wasAlive |-> alive[w], cache0 |-> cache]

GetAttribute ==
    /\ nattr < MaxAttrs
    /\ \E w \in NodeWrappers, name \in AttrNames, dead \in DeadOutcomes :
          \E r \in {getattr(cache, nattr, w, name, alive[w], dead)} : RecordA("getattr", w, name, r)
    /\ UNCHANGED <<rlast, fac, mfnAttr, commandVars, uiUnit, comp, multiVars, resolved, registryVars, alive>>

Name ==
    /\ \E w \in NodeWrappers, dead \in DeadOutcomes :
          \E r \in {DependNode_name(cache, nattr, w, alive[w], dead)} : RecordA("name", w, "", r)
    /\ UNCHANGED <<rlast, fac, mfnAttr, commandVars, uiUnit, comp, multiVars, resolved, registryVars, alive>>

ApiMObject ==
    /\ \E w \in NodeWrappers :
          \E r \in {apimobject(cache, nattr, w)} : RecordA("apimobject", w, "", r)
    /\ UNCHANGED <<rlast, fac, mfnAttr, commandVars, uiUnit, comp, multiVars, resolved, registryVars, alive>>

\* DependNode._delete: the host deletes the node
Delete ==
    /\ \E w \in NodeWrappers :
        /\ alive[w]
        /\ alive' = [alive EXCEPT ![w] = FALSE]
        /\ alast' = [NoALast EXCEPT !.op = "delete", !.w = w, !.cache0 = cache]
    /\ UNCHANGED <<rlast, fac, mfnAttr, commandVars, uiUnit, comp, multiVars, resolved, registryVars, cache, nattr>>

\* ------------------------------------------------- general.ComponentFactory
\* a slice bound is <<>> when omitted and <<k>> when given
Bounds == {<<>>} \cup {<<k>> : k \in -1..MaxCount}
Steps == {<<>>} \cup {<<k>> : k \in {-1, 0, 2}}
Slices == [start : Bounds, stop : Bounds, step : Steps]
NoSlice == [start |-> <<>>, stop |-> <<>>, step |-> <<>>]

\* xrange(start, stop, step), for a step that is not 0
xrange(start, stop, step) ==
    LET n == IF step > 0
             THEN IF stop > start THEN (stop - start + step - 1) \div step ELSE 0
             ELSE IF start > stop THEN (start - stop - step - 1) \div (0 - step) ELSE 0
    IN  [k \in 1..n |-> start + (k - 1) * step]

\* ComponentFactory.__getitem__ of a one-dimensional accessor given a slice
ComponentFactory_getitem(max, used, item) ==
    LET start == IF item.start = <<>> THEN 0 ELSE item.start[1]
        stop0 == IF item.stop = <<>> THEN max - 1 ELSE item.stop[1]
        step == IF item.step = <<>> THEN 1 ELSE item.step[1]
        stop == IF step > 0 THEN stop0 + 1 ELSE stop0 - 1
    IN  IF used THEN [elements |-> <<>>, used |-> TRUE, err |-> "RuntimeError"]
        ELSE IF step = 0 THEN [elements |-> <<>>, used |-> FALSE, err |-> "ValueError"]
        ELSE [elements |-> xrange(start, stop, step), used |-> TRUE, err |-> "none"]

NoComp ==
    [count |-> MaxCount, max |-> <<>>, used |-> FALSE, op |-> "none", item |-> NoSlice,
     elements |-> <<>>, err |-> "none"]

\* v = mesh.vtx: a new accessor, made with the vertex count of the moment
MeshVtx ==
    /\ comp' = [NoComp EXCEPT !.count = comp.count, !.max = <<comp.count>>, !.op = "vtx"]
    /\ UNCHANGED <<rlast, fac, mfnAttr, commandVars, uiUnit, multiVars, resolverVars>>

\* v[start:stop:step] on the accessor the caller holds
Subscript ==
    /\ comp.max # <<>>
    /\ \E item \in Slices :
          \E r \in {ComponentFactory_getitem(comp.max[1], comp.used, item)} :
              comp' = [comp EXCEPT !.used = r.used, !.op = "getitem", !.item = item,
                                   !.elements = r.elements, !.err = r.err]
    /\ UNCHANGED <<rlast, fac, mfnAttr, commandVars, uiUnit, multiVars, resolverVars>>

\* the mesh is edited: it gains or loses vertices
EditMesh ==
    /\ \E n \in 0..MaxCount : /\ n # comp.count
                              /\ comp' = [NoComp EXCEPT !.count = n, !.max = comp.max,
                                                        !.used = comp.used, !.op = "edit"]
    /\ UNCHANGED <<rlast, fac, mfnAttr, commandVars, uiUnit, multiVars, resolverVars>>


\* the accessors of dimension 2 and 3 (surface.cv, lattice.pt) and their subscripts
\* an entry of a subscript: int is <<k>> for the integer k, and <<>> for a slice
Entry(k) == [int |-> <<k>>, slice |-> NoSlice]
SliceEntry(start, stop, step) ==
    [int |-> <<>>, slice |-> [start |-> start, stop |-> stop, step |-> step]]
Items ==
    {<<>>}
    \cup {<<Entry(j)>> : j \in {0, 1}}
    \cup {<<Entry(j), Entry(k)>> : j, k \in {0, 1}}
    \cup {<<SliceEntry(<<>>, <<>>, st)>> : st \in {<<>>, <<0>>, <<2>>, <<-1>>}}

RECURSIVE prodList(_)
prodList(lst) == IF lst = <<>> THEN 1 ELSE lst[1] * prodList(Tail(lst))

\* the loop of __getitem__ over the entries of item, filling the MIntArray
RECURSIVE ComponentFactory_array(_, _, _)
ComponentFactory_array(it, max, array) ==
    IF Iterator_isDone(it) THEN [array |-> array, err |-> "none"]
    ELSE IF ~Iterator_inRange(it) THEN [array |-> array, err |-> "IndexError"]
    ELSE LET i == Iterator_currentItem(it)
             start == IF i.slice.start = <<>> THEN 0 ELSE i.slice.start[1]
             stop0 == IF i.slice.stop = <<>> THEN max - 1 ELSE i.slice.stop[1]
             step == IF i.slice.step = <<>> THEN 1 ELSE i.slice.step[1]
             stop == IF step > 0 THEN stop0 + 1 ELSE stop0 - 1
         IN  IF i.int # <<>>
             THEN ComponentFactory_array(Iterator_next(it), max, Append(array, i.int[1]))
             ELSE IF step = 0 THEN [array |-> array, err |-> "ValueError"]
             ELSE ComponentFactory_array(Iterator_next(it), max,
                                         array \o xrange(start, stop, step))

\* result[index].append(value), after result.append([]) when index is the next row
appendToResult(result, index, value) ==
    LET r == IF index >= Len(result) THEN Append(result, <<>>) ELSE result
    IN  [r EXCEPT ![index + 1] = Append(@, value)]

\* xrange(currentCount/len(it)): how many rows in a run take the same item
ComponentFactory_repeats_Whole(currentCount, it) == currentCount

ComponentFactory_repeats(currentCount, it) == currentCount \div Len(it.data)

\* `for _ in xrange(...)`: value appended to row i, `left` times, i moving on;
\* st holds result and i
RECURSIVE ComponentFactory_run(_, _, _)
ComponentFactory_run(st, value, left) ==
    IF left > 0
    THEN Then([result |-> appendToResult(st.result, st.i, value), i |-> st.i + 1],
              LAMBDA r : ComponentFactory_run(r, value, left - 1))
    ELSE st

\* `while not it.isDone()`: a run of rows for each item of one Iterator
RECURSIVE ComponentFactory_pass(_, _, _)
ComponentFactory_pass(st, it, currentCount) ==
    IF Iterator_isDone(it) THEN st
    ELSE Then(ComponentFactory_run(st, Iterator_currentItem(it),
                                   ComponentFactory_repeats(currentCount, it)),
              LAMBDA r : ComponentFactory_pass(r, Iterator_next(it), currentCount))

\* `while i < count`: Iterators over idList, one after the other
RECURSIVE ComponentFactory_fill(_, _, _, _)
ComponentFactory_fill(st, idList, currentCount, count) ==
    IF st.i < count
    THEN Then(ComponentFactory_pass(st, Iterator_new(idList), currentCount),
              LAMBDA r : ComponentFactory_fill(r, idList, currentCount, count))
    ELSE st.result

\* the loop over the index lists that builds the rows of a 2- or 3-dimensional
\* component, one column per list
RECURSIVE ComponentFactory_elements(_, _, _, _)
ComponentFactory_elements(arrayIt, indexArray, count, result) ==
    IF Iterator_isDone(arrayIt) THEN result
    ELSE LET currentId == arrayIt.n
             idList == Iterator_currentItem(arrayIt)
             rest == SubSeq(indexArray, currentId + 1, Len(indexArray))
             currentCount == prodList([k \in 1..Len(rest) |-> Len(rest[k])])
             filled == ComponentFactory_fill([result |-> result, i |-> 0], idList,
                                             currentCount, count)
         IN  Then(filled, LAMBDA r : ComponentFactory_elements(Iterator_next(arrayIt),
                                                               indexArray, count, r))

NoFactory ==
    [idCount |-> 0, max |-> <<>>, indexArray |-> <<>>, elements |-> <<>>,
     op |-> "none", ret |-> "none", err |-> "none", before |-> <<>>]

\* ComponentFactory.__getitem__(item) on the accessor f, and what it returns
ComponentFactory_subscript(f, item) ==
    LET g == [f EXCEPT !.op = "getitem", !.before = f.indexArray, !.ret = "none"]
    IN  IF Len(f.indexArray) >= f.idCount THEN [g EXCEPT !.err = "RuntimeError"]
        ELSE LET a == ComponentFactory_array(Iterator_new(item),
                                             f.max[Len(f.indexArray) + 1], <<>>)
                 arr == Append(f.indexArray, a.array)
                 count == prodList([k \in 1..Len(arr) |-> Len(arr[k])])
             IN  IF a.err # "none" THEN [g EXCEPT !.err = a.err]
                 ELSE IF Len(arr) = f.idCount
                 THEN [g EXCEPT !.indexArray = arr, !.err = "none", !.ret = "component",
                                !.elements = IF f.idCount = 1 THEN arr[1]
                                             ELSE ComponentFactory_elements(
                                                      Iterator_new(arr), arr, count, <<>>)]
                 ELSE [g EXCEPT !.indexArray = arr, !.err = "none", !.ret = "self"]

\* shape.vtx, surface.cv or lattice.pt: a new accessor of dimension d
FactoryNew ==
    /\ \E d \in 1..3 :
          fac' = [NoFactory EXCEPT !.idCount = d, !.max = [k \in 1..d |-> MaxCount],
                                   !.op = "new"]
    /\ UNCHANGED <<rlast, mfnAttr, commandVars, uiUnit, comp, multiVars, resolverVars>>

\* f[item] on the accessor the caller holds
FactoryGetitem ==
    /\ fac.idCount > 0
    /\ \E item \in Items : fac' = ComponentFactory_subscript(fac, item)
    /\ UNCHANGED <<rlast, mfnAttr, commandVars, uiUnit, comp, multiVars, resolverVars>>

\* ------------------------------------------------- general.AttrCreator
\* a keyword is <<>> when it is not given (None) and <<v>> when it is
Given == {<<>>, <<1>>, <<2>>}
AttrTypes == {"NUMERIC", "UNIT", "STRING"}
NoBounds == [min |-> <<>>, max |-> <<>>, softMin |-> <<>>, softMax |-> <<>>]

\* the range the function set is left with by AttrCreator.__new__
AttrCreator_new(attrType, kw) ==
    IF attrType \in {"UNIT", "NUMERIC"}
    THEN LET m1 == IF kw.min # <<>> THEN [NoBounds EXCEPT !.min = kw.min] ELSE NoBounds
             m2 == IF kw.max # <<>> THEN [m1 EXCEPT !.max = kw.max] ELSE m1
             m3 == IF kw.softMin # <<>> THEN [m2 EXCEPT !.softMin = kw.softMin] ELSE m2
         IN  IF kw.softMax # <<>> THEN [m3 EXCEPT !.softMin = kw.softMax] ELSE m3
    ELSE NoBounds

NoAttr == [attrType |-> "", kw |-> NoBounds, mfn |-> NoBounds]

AttrCreate ==
    /\ \E attrType \in AttrTypes, kw \in [min : Given, max : Given, softMin : Given, softMax : Given] :
          mfnAttr' = [attrType |-> attrType, kw |-> kw, mfn |-> AttrCreator_new(attrType, kw)]
    /\ UNCHANGED <<rlast, fac, commandVars, uiUnit, comp, multiVars, resolverVars>>

NoFlags == [p \in FlagPlugs |-> FALSE]

Locks(lt, lc) ==
    [p \in AllPlugs |-> IF p = ChannelPlug("translate", 1) THEN lt
                        ELSE IF p = DstPlug THEN lc ELSE FALSE]

InitRest ==
    /\ val = [p \in ScalarPlugs |-> 0]
    /\ nodes = {"a", "b", "c", "t", "p"}
    /\ par = [n \in DagNodes |-> IF n \in NewNodeSet THEN "" ELSE World]
    /\ made = 0
    /\ mods = <<>>
    /\ ledger = <<>>
    /\ cursor = 0
    /\ batch = 0
    /\ steps = 0
    /\ last = NoLast
    /\ resolved = NoResolved
    /\ mlast = NoMLast
    /\ parentDict = NoRegistry
    /\ vClasses = <<>>
    /\ alive = [w \in NodeWrappers |-> TRUE]
    /\ cache = NoALast.cache0
    /\ nattr = 0
    /\ alast = NoALast
    /\ uiUnit = ImportUnit
    /\ comp = NoComp
    /\ mfnAttr = NoAttr
    /\ fac = NoFactory
    /\ rlast = NoRLast

NoMulti == modifiers = <<>> /\ raising = {}

\* the attribute-level operations, in a scene where the destination plug may be
\* locked and may already be driven
Init ==
    /\ \E lc \in BOOLEAN : locked = Locks(FALSE, lc)
    /\ conn \in [DstPlugs -> SrcPlugs \cup {Null}]
    /\ keyable = NoFlags /\ chbox = NoFlags
    /\ InitRest
    /\ host = NoHost
    /\ NoMulti

\* the DAG operations, in a scene where translateX may be locked
InitDag ==
    /\ \E lt \in BOOLEAN : locked = Locks(lt, FALSE)
    /\ conn = [d \in DstPlugs |-> Null]
    /\ keyable = NoFlags /\ chbox = NoFlags
    /\ InitRest
    /\ host = NoHost
    /\ NoMulti

\* the flag operations, on a plug that may be keyable and may be shown in the
\* channel box
InitProxy ==
    /\ locked = Locks(FALSE, FALSE)
    /\ conn = [d \in DstPlugs |-> Null]
    /\ keyable \in [FlagPlugs -> BOOLEAN]
    /\ chbox \in [FlagPlugs -> BOOLEAN]
    /\ InitRest
    /\ host = NoHost
    /\ NoMulti

\* a MultiModifier built from no or one member, over an idle scene
InitMulti ==
    /\ locked = Locks(FALSE, FALSE)
    /\ conn = [d \in DstPlugs |-> Null]
    /\ keyable = NoFlags /\ chbox = NoFlags
    /\ InitRest
    /\ host = NoHost
    /\ modifiers \in SeqsUpTo(1)
    /\ raising \in SUBSET Members

InitResolver == InitMulti /\ NoMulti

\* an object set that may have members already
InitSet ==
    /\ locked = Locks(FALSE, FALSE)
    /\ conn = [d \in DstPlugs |-> Null]
    /\ keyable = NoFlags /\ chbox = NoFlags
    /\ InitRest
    /\ NoMulti
    /\ \E o \in SUBSET Objs : host = [NoHost EXCEPT !.members = o]

\* select, from any active selection
InitSelect ==
    /\ locked = Locks(FALSE, FALSE)
    /\ conn = [d \in DstPlugs |-> Null]
    /\ keyable = NoFlags /\ chbox = NoFlags
    /\ InitRest
    /\ NoMulti
    /\ \E o \in SUBSET Objs : host = [NoHost EXCEPT !.active = o]

Next ==
    \/ SetAttr
    \/ SetAttrCompound
    \/ ConnectAttr
    \/ DisconnectAttr
    \/ CreateNode
    \/ DependNodeCreate
    \/ CallerNewBatch
    \/ CallerFinish
    \/ HostUndo
    \/ HostRedo

NextAttr == AttrCreate

NextSet ==
    \/ AddMembers
    \/ RemoveMembers

NextSelect ==
    \/ Select
    \/ HostUndo
    \/ HostRedo

NextValue ==
    \/ SetAttr
    \/ SetAttrCompound
    \/ SetAttrGeneric
    \/ GetAttr
    \/ WriteBack
    \/ SetUiUnit
    \/ CallerNewBatch
    \/ CallerFinish

NextDag ==
    \/ Transform
    \/ Parent
    \/ SetAttr
    \/ CallerNewBatch
    \/ CallerFinish
    \/ HostUndo
    \/ HostRedo

\* the operations undoable through a ProxyModifier
NextProxy ==
    \/ SetKeyable
    \/ SetDisplayable
    \/ HostUndo
    \/ HostRedo

Spec == Init /\ [][Next]_vars
\* attributes made by AttrCreator
SpecAttr == InitResolver /\ [][NextAttr]_vars
\* members added to and removed from an object set
SpecSet == InitSet /\ [][NextSet]_vars
\* select and the host's undo and redo of it
SpecSelect == InitSelect /\ [][NextSelect]_vars
\* reads and writes of plug values while the UI unit may change
SpecValue == Init /\ [][NextValue]_vars
SpecProxy == InitProxy /\ [][NextProxy]_vars

NextPoint ==
    \/ SetPoint
    \/ SetPosition
    \/ HostUndo
    \/ HostRedo

\* a vertex moved through the mesh and through its component, and the host's
\* undo and redo
SpecPoint == InitProxy /\ [][NextPoint]_vars

NextMulti ==
    \/ MultiAppend
    \/ MultiExtend
    \/ MultiDoIt
    \/ MultiUndoIt

SpecMulti == InitMulti /\ [][NextMulti]_vars

NextResolver == Resolve

NextComponent ==
    \/ MeshVtx
    \/ Subscript
    \/ EditMesh

NextNavigate ==
    \/ Resolve
    \/ Navigate

NextVirtual ==
    \/ Register
    \/ Wrap

SpecVirtual == InitResolver /\ [][NextVirtual]_vars

NextRegistry ==
    \/ Register
    \/ Construct

\* the registry of user classes and the classes constructed without a handle
SpecRegistry == InitResolver /\ [][NextRegistry]_vars

NextWrapper ==
    \/ GetAttribute
    \/ Name
    \/ ApiMObject
    \/ Delete

SpecWrapper == InitResolver /\ [][NextWrapper]_vars

NextFactory ==
    \/ FactoryNew
    \/ FactoryGetitem

\* an accessor of dimension 1, 2 or 3 and the subscripts it is given
SpecFactory == InitResolver /\ [][NextFactory]_vars
\* a mesh, its vertex accessor and the ranges the accessor is subscripted with
SpecComponent == InitResolver /\ [][NextComponent]_vars
\* the factory and the wrappers built by wrappers
SpecNavigate == InitResolver /\ [][NextNavigate]_vars
SpecResolver == InitResolver /\ [][NextResolver]_vars
SpecDag == InitDag /\ [][NextDag]_vars
\* ================================================================ claims
Commits == Count(last.ev, "commit")
DoIts == Count(last.ev, "doIt")
LedgerUntouched == ledger = last.ledger0 /\ cursor = last.cursor0
Registered(id) ==
    /\ ledger = Append(SubSeq(last.ledger0, 1, last.cursor0), [id |-> id])
    /\ cursor = Len(ledger)

\* every enqueue, then the one doIt, then the one commit
ApplyThenRegister(ev) ==
    /\ Len(ev) >= 2
    /\ ev[Len(ev)] = "commit"
    /\ ev[Len(ev) - 1] = "doIt"
    /\ \A i \in 1..(Len(ev) - 2) : ev[i] = "enq"

C1_Ops == {"setAttr", "setAttrCompound", "connectAttr", "disconnectAttr", "createNode"}
C1_Own == last.op \in C1_Ops /\ ~last.batched /\ last.err = "none"
C1_Protocol ==
    /\ last.id = last.nmods0 + 1
    /\ ApplyThenRegister(last.ev)
    /\ Registered(last.id)
    /\ mods[last.id].f = ""
    /\ mods[last.id].done = Len(mods[last.id].ops)

\* C1 as stated: an operation called without _modifier makes its own batch,
\* applies it, registers it once and returns that batch as the Command.
C1_Original == C1_Own => (C1_Protocol /\ last.ret = "mod")

\* C1 amended: setAttr (given a value), connectAttr, disconnectAttr and
\* createNode called without _modifier and not raising make their own batch,
\* enqueue, apply it with one doIt, then register it exactly once (undo = its
\* undoIt, redo = its doIt); setAttr, connectAttr and disconnectAttr return
\* that batch, createNode returns the wrapper of the new node.
C1_Amended ==
    C1_Own => (C1_Protocol /\ last.ret = IF last.op = "createNode" THEN "node" ELSE "mod")

C1_Witness ==
    /\ C1_Own
    /\ last.op = "connectAttr"
    /\ last.ev = <<"enq", "enq", "doIt", "commit">>
    /\ Len(last.ledger0) = 1

BatchOps ==
    {"setAttr", "setAttrCompound", "connectAttr", "disconnectAttr", "createNode",
     "DependNode.create", "parent", "transform"}

\* C2: an operation given the caller's _modifier only enqueues into it: it
\* runs no doIt and leaves the undo ledger as it was.
C2_Claim ==
    (last.op \in BatchOps /\ last.batched /\ last.err = "none")
        => (DoIts = 0 /\ Commits = 0 /\ LedgerUntouched)

C3_Case ==
    /\ ~last.batched
    /\ last.err = "none"
    /\ \/ last.op = "parent" /\ ~last.flag
       \/ last.op = "transform" /\ last.flag

\* C3: parent keeping the world transform, and transform given a matrix, called
\* without _modifier, append exactly one entry to the undo ledger.
C3_Claim == C3_Case => (Commits = 1 /\ Len(ledger) = last.cursor0 + 1)

\* C4: connectAttr onto a destination already driven by that source is a
\* no-op: nothing returned, nothing registered, no error, connections unchanged.
C4_Claim ==
    (last.op = "connectAttr" /\ last.scene0.conn[last.b] = last.a)
        => /\ last.err = "none"
           /\ last.ret = "none"
           /\ LedgerUntouched
           /\ conn = last.scene0.conn

\* C5: disconnectAttr on a destination with no incoming connection does not
\* raise, changes no connection and registers no Command.
C5_Claim ==
    (last.op = "disconnectAttr" /\ last.scene0.conn[last.b] = Null)
        => /\ last.err = "none"
           /\ conn = last.scene0.conn
           /\ Commits = 0
           /\ LedgerUntouched

\* a modifier holding exactly: disconnect the prior source, connect the new one
ForcedPair(ops) ==
    /\ Len(ops) = 2
    /\ ops[1].k = "disconnect"
    /\ ops[2].k = "connect"
    /\ ops[1].q = ops[2].q
    /\ ops[1].p # ops[2].p

C6_Case ==
    /\ last.op = "connectAttr"
    /\ last.flag
    /\ ~locked[last.b]
    /\ last.scene0.conn[last.b] \notin {Null, last.a}

C6_Enqueued ==
    C6_Case =>
        /\ last.err = "none"
        /\ LET ops == mods[IF last.batched THEN last.m ELSE last.id].ops
               n == Len(ops)
           IN  /\ n >= 2
               /\ ops[n - 1].k = "disconnect"
               /\ ops[n - 1].p = last.scene0.conn[last.b]
               /\ ops[n - 1].q = last.b
               /\ ops[n].k = "connect"
               /\ ops[n].p = last.a
               /\ ops[n].q = last.b
               /\ ~last.batched => (n = 2 /\ conn[last.b] = last.a /\ Registered(last.id))

C6_Undone ==
    (last.op = "undo" /\ ForcedPair(mods[ledger[cursor + 1].id].ops))
        => LET ops == mods[ledger[cursor + 1].id].ops
           IN  conn[ops[1].q] = ops[1].p

C6_Redone ==
    (last.op = "redo" /\ ForcedPair(mods[ledger[cursor].id].ops))
        => LET ops == mods[ledger[cursor].id].ops
           IN  last.err = "none" /\ conn[ops[2].q] = ops[2].p

\* C6: connectAttr with force onto a destination driven by another source
\* enqueues the disconnection of that source and then the connection, in the
\* same modifier; applied, the destination is driven by the new source; the
\* Command undone, by the prior source; redone, by the new source again.
C6_ForceAtomic == C6_Enqueued /\ C6_Undone /\ C6_Redone

C6_Witness ==
    /\ last.op = "redo"
    /\ ForcedPair(mods[ledger[cursor].id].ops)
    /\ last.prev.op = "undo"
    /\ conn[DstPlug] = mods[ledger[cursor].id].ops[2].p

C7_Case ==
    \/ last.op = "setAttr" /\ locked[last.a]
    \/ last.op = "connectAttr" /\ locked[last.b]
    \/ last.op = "transform" /\ \E p \in Channels : locked[p]

\* C7: an operation whose target plug is locked raises and performs no edit:
\* nothing enqueued, nothing applied, nothing registered.
C7_Claim == C7_Case => (last.err # "none" /\ last.ev = <<>> /\ SceneNow = last.scene0)

\* C8: undoing the Command of an operation restores the readable state that
\* held before the operation; redoing what was just undone restores the state
\* that held before the undo.
C8_Claim ==
    /\ (last.op = "undo" /\ last.prev.op \in {"setKeyable", "setDisplayable"})
           => SceneNow = last.prev.scene0
    /\ (last.op = "redo" /\ last.prev.op = "undo") => SceneNow = last.prev.scene0
\* the member calls of a whole pass over the list: each member once, in order
InOrder(ms, f) == [i \in 1..Len(ms) |-> <<ms[i], f>>]
IsPrefix(p, q) == Len(p) <= Len(q) /\ p = SubSeq(q, 1, Len(p))

\* C9: MultiModifier.doIt calls doIt of every member exactly once in list order
\* and undoIt calls undoIt of every member exactly once in the same list order
\* (a member that raises ends the pass there); append and extend add at the end.
C9_MultiOrder ==
    /\ mlast.op \in {"doIt", "undoIt"} =>
           /\ IsPrefix(mlast.calls, InOrder(modifiers, mlast.op))
           /\ mlast.err = "none" => mlast.calls = InOrder(modifiers, mlast.op)
           /\ mlast.err = "RuntimeError" => mlast.calls[Len(mlast.calls)][1] \in raising
           /\ mlast.err = "IndexError" <=> modifiers = <<>>
           /\ modifiers = mlast.before
    /\ mlast.op \in {"append", "extend"} => modifiers = mlast.before \o mlast.added

C9_Witness ==
    /\ mlast.op = "undoIt"
    /\ mlast.err = "none"
    /\ Len(modifiers) = 3
    /\ modifiers[1] # modifiers[3]
    /\ mlast.calls = InOrder(modifiers, "undoIt")

ProbeOrder == <<ATTRIBUTE, COMPONENT, DAGNODE, DEPENDNODE>>
FirstHit(apiObj) ==
    LET hits == {i \in 1..4 : hasFn(apiObj, ProbeOrder[i])}
    IN  IF hits = {} THEN "None" ELSE ProbeOrder[CHOOSE i \in hits : \A j \in hits : i <= j]
Concrete(scope) ==
    IF scope = ATTRIBUTE THEN DOMAIN plugTypes_
    ELSE IF scope = COMPONENT THEN DOMAIN compTypes_
    ELSE IF scope = DAGNODE THEN DOMAIN dagTypes_
    ELSE DOMAIN dgTypes_

\* C10: with no type hint the scope is that of the first of attribute,
\* component, DAG node, DG node the handle answers to; a handle answering to
\* none is a TypeError; the class chosen belongs to that scope, and is the
\* scope's generic class when no concrete class is registered for the handle.
C10_Resolver ==
    (resolved.api # "" /\ resolved.hint = "None") =>
        LET s == FirstHit(resolved.api)
        IN  IF s = "None" THEN resolved.err = "TypeError" /\ resolved.cls = "None"
            ELSE /\ resolved.err = "none"
                 /\ resolved.scope = s
                 /\ IsA(resolved.cls, defaultClasses_[s])
                 /\ \A o \in TypeScopes \ {s} :
                        IsA(defaultClasses_[o], defaultClasses_[s]) => ~IsA(resolved.cls, defaultClasses_[o])
                 /\ (FnSet(resolved.api) \cap Concrete(s) = {}) => resolved.cls = defaultClasses_[s]

C10_Witness ==
    /\ resolved.api = "kCamera"
    /\ resolved.hint = "None"
    /\ resolved.via = "MObject"
    /\ resolved.cls = "DagNode"
    /\ resolved.keys = {"MDagPath", "MObjectHandle"}
\* C11: a type hint that disagrees with the scope the handle's capabilities
\* give is a type-mismatch error and no wrapper class is produced.
C11_Claim ==
    (resolved.api # "" /\ resolved.hint \notin {"None", FirstHit(resolved.api)})
        => (resolved.err # "none" /\ resolved.cls = "None")

\* the registered virtual classes declared under T or an ancestor of T whose
\* predicate accepts the last handle
Matching ==
    {v \in VClasses : /\ isRegistered(vClasses, v)
                      /\ IsA(resolved.cls, ParentClass(v))
                      /\ isVirtual_(v, resolved.tag)}

\* C12: the wrapper of a handle resolved to T is an instance of a registered
\* virtual subclass declared under T or an ancestor of T whose predicate
\* accepts the handle, and an instance of T when there is none.
C12_Claim ==
    (resolved.api # "" /\ resolved.err = "none")
        => IF Matching = {} THEN resolved.inst = resolved.cls ELSE resolved.inst \in Matching

\* C13: two or more registered virtual subclasses accepting the same handle
\* is an ambiguous-match error; none of them is returned.
C13_Claim ==
    (resolved.api # "" /\ Cardinality(Matching) >= 2)
        => (resolved.err # "none" /\ resolved.inst = "None")
\* C14: on every node wrapper the first successful lookup of an attribute name
\* stores the attribute wrapper on the instance under that name, a later lookup
\* of the name returns the stored wrapper without asking the host, and a failed
\* lookup raises AttributeError and stores nothing.
C14_Claim ==
    (alast.op = "getattr" /\ alast.wasAlive) =>
        LET before == alast.cache0[alast.w][alast.name]
        IN  /\ (before = 0 /\ alast.err = "none")
                   => (alast.ret # 0 /\ cache[alast.w][alast.name] = alast.ret)
            /\ before # 0 => (alast.err = "none" /\ alast.ret = before /\ alast.q = 0)
            /\ alast.err # "none" => (alast.err = "AttributeError" /\ cache = alast.cache0)

\* C15: once the node behind a wrapper is deleted, obtaining the raw handle,
\* the name or an attribute through the wrapper raises; none returns a value.
C15_Claim ==
    (alast.op \in {"apimobject", "name", "getattr"} /\ ~alast.wasAlive)
        => (alast.err # "none" /\ alast.ret = 0 /\ cache = alast.cache0)

C16_Case == last.op = "setAttrCompound"
C16_Short ==
    (C16_Case /\ Len(last.v) < numChildren(last.a))
        => /\ last.err = "ValueError"
           /\ Count(last.ev, "enq") = 0
           /\ DoIts = 0 /\ Commits = 0
           /\ LedgerUntouched
           /\ SceneNow = last.scene0
           /\ Len(mods) = last.nmods0
           /\ last.ret = "none"

C16_Long ==
    (C16_Case /\ Len(last.v) >= numChildren(last.a))
        => /\ last.err = "none"
           /\ LET n == numChildren(last.a)
                  ops == mods[IF last.batched THEN last.m ELSE last.id].ops
                  k == Len(ops) - n
              IN  /\ k >= 0
                  /\ Count(last.ev, "enq") = n
                  /\ \A i \in 1..n :
                        /\ ops[k + i].k = "setval"
                        /\ ops[k + i].p = child(last.a, i)
                        /\ ops[k + i].v = toDistance(last.v[i])
                        /\ ~last.batched => val[child(last.a, i)] = toDistance(last.v[i])

\* C16: a sequence shorter than the number of children written to a compound
\* plug raises the arity error, enqueues no child edit, applies nothing and
\* registers no Command; a sequence at least that long gives child i its
\* element i, for every child.
C16_Arity == C16_Short /\ C16_Long

C16_LongCase ==
    /\ C16_Case
    /\ Len(last.v) > numChildren(last.a)
    /\ ~last.batched
    /\ last.prev = NoPrev
    /\ last.scene0.val[child(last.a, 1)] # val[child(last.a, 1)]
    /\ val[child(last.a, 1)] # val[child(last.a, 3)]

C16_Witness ==
    /\ C16_Case
    /\ Len(last.v) < numChildren(last.a)
    /\ last.batched
    /\ last.err = "ValueError"

\* C17: writing back to a plug the value just read from it leaves what the
\* plug stores unchanged, whatever the UI unit has become since the module was
\* loaded.
C17_Claim ==
    (last.op = "writeBack" /\ ~last.batched) => (last.err = "none" /\ val = last.scene0.val)

\* C19: a read or a write on a plug whose storage category the layer does not
\* model raises the unsupported-type error to the caller: it returns nothing,
\* and a write registers no Command.
C19_Claim ==
    (last.op \in {"getAttr", "setAttr"} /\ last.a = GenericPlug)
        => (last.err = "TypeError" /\ last.ret = "none" /\ LedgerUntouched)

\* C20: every construction path that reaches a wrapper class hands it the node
\* handle (the MObjectHandle keyword) and yields an instance holding it; this
\* holds for the factory and for the wrappers built by attribute subscript,
\* child lookup, parent lookup and component subscript.
C20_Claim ==
    resolved.cls # "None" => ("MObjectHandle" \in resolved.keys /\ resolved.inst # "None")

\* C18: a range subscript of a mesh's component accessor produces only indices
\* of elements the mesh has at the time of the subscript: every produced index
\* i satisfies 0 <= i < count, for positive and for negative steps.
C18_Claim ==
    (comp.op = "getitem" /\ comp.err = "none")
        => \A k \in 1..Len(comp.elements) : 0 <= comp.elements[k] /\ comp.elements[k] < comp.count

C21_Case ==
    /\ last.op = "select"
    /\ last.v[1].kind # "None" \/ last.flag
    /\ Cardinality({k \in {"add", "deselect", "toggle"} : last.v[2][k]}) <= 1
C21_O == last.host0.active
C21_S == Range(last.v[1].items)
C21_New ==
    IF last.v[1].kind = "None" THEN {}
    ELSE IF last.v[2].add THEN C21_O \cup C21_S
    ELSE IF last.v[2].deselect THEN C21_O \ C21_S
    ELSE IF last.v[2].toggle THEN (C21_O \cup C21_S) \ (C21_O \cap C21_S)
    ELSE C21_S

\* C21: select makes the active selection O union S with add, O minus S with
\* deselect, the symmetric difference with toggle, S with no flag and the empty
\* selection with clear and no objects; the Command it returns and registers
\* sets that selection forward and O, as it was before the call, in reverse.
C21_Claim ==
    C21_Case =>
        /\ last.err = "none"
        /\ host.active = C21_New
        /\ last.ret = "mod"
        /\ Registered(last.id)
        /\ mods[last.id].doArg.s = C21_New
        /\ mods[last.id].undoArg.s = C21_O
        /\ mods[last.id].f = "setActiveSelectionList"
        /\ mods[last.id].uf = "setActiveSelectionList"

C22_Case == last.op = "createNode" /\ last.v[1] # World /\ last.err = "none"
C22_Op == LET ops == mods[last.id].ops IN ops[Len(ops)]

\* C22: createNode given a parent creates the node under that parent, whether
\* the DAG modifier is auto-detected, forced with _isDag=True or the caller's.
C22_Claim ==
    C22_Case => /\ C22_Op.k = "createNode"
                /\ C22_Op.m = last.v[1]
                /\ ~last.batched => par[C22_Op.n] = last.v[1]

C23_M == Range(last.v[1].items)

\* C23: after removeMembers(M) no object of M is a member of the set and the
\* membership of every other object is as before; after addMembers(M) every
\* object of M is a member.
C23_Claim ==
    /\ (last.op = "removeMembers" /\ last.err = "none")
           => /\ host.members \cap C23_M = {}
              /\ host.members \ C23_M = last.host0.members \ C23_M
    /\ (last.op = "addMembers" /\ last.err = "none") => C23_M \subseteq host.members

\* C24: for a numeric or unit attribute AttrCreator sets each of min, max,
\* softMin and softMax to the value given for it and leaves it unset when none
\* is given; a given softMax becomes the soft maximum and the soft minimum is
\* not altered by it.
C24_Claim ==
    mfnAttr.attrType \in {"NUMERIC", "UNIT"} => mfnAttr.mfn = mfnAttr.kw

\* C25: over every finite sequence, the empty one included, the loop
\* `while not it.isDone(): use it.currentItem(); it.next()` ends having used
\* each element once, in order, without reading outside the sequence (here the
\* members of a MultiModifier none of which raises).
C25_Claim ==
    (mlast.op \in {"doIt", "undoIt"} /\ Range(modifiers) \cap raising = {})
        => (mlast.err = "none" /\ mlast.calls = InOrder(modifiers, mlast.op))

\* C26: an accessor of dimension d returns itself on each of its first d-1
\* subscripts and a built component on the d-th; it never holds more than d
\* index lists, and a subscript after the d-th raises and leaves them as they were.
C26_Claim ==
    fac.op = "getitem"
        => /\ Len(fac.indexArray) <= fac.idCount
           /\ Len(fac.before) < fac.idCount - 1 => (fac.err = "none" /\ fac.ret = "self")
           /\ Len(fac.before) = fac.idCount - 1 => (fac.err = "none" /\ fac.ret = "component")
           /\ Len(fac.before) >= fac.idCount
                  => (fac.err # "none" /\ fac.indexArray = fac.before)

C27_Case ==
    /\ fac.op = "getitem"
    /\ fac.ret = "component"
    /\ fac.idCount >= 2
    /\ \A k \in 1..fac.idCount : fac.indexArray[k] # <<>>
\* the number of rows over which index list k keeps one value
C27_Stride(k) ==
    prodList([j \in 1..(fac.idCount - k) |-> Len(fac.indexArray[k + j])])
C27_Product ==
    [p \in 1..prodList([k \in 1..fac.idCount |-> Len(fac.indexArray[k])]) |->
        [k \in 1..fac.idCount |->
            fac.indexArray[k][(((p - 1) \div C27_Stride(k)) % Len(fac.indexArray[k])) + 1]]]

\* C27: the elements of a component built from the non-empty index lists
\* L1..Ld (d = 2 or 3) are the d-tuples of L1 x ... x Ld in row-major order,
\* the first dimension varying slowest, one for each combination.
C27_Claim == C27_Case => fac.elements = C27_Product

C27_Witness ==
    /\ C27_Case
    /\ fac.idCount = 3
    /\ Len(fac.indexArray[1]) = 2 /\ Len(fac.indexArray[2]) = MaxCount
    /\ fac.indexArray[3] = <<1, 0>>
    /\ fac.elements = C27_Product

\* C28: running the forward or the reverse action of a registered Command
\* appends nothing to the undo ledger: one setPosition (or setPoint) leaves one
\* new entry, and a host undo or redo leaves the ledger's length as it was.
C28_Claim ==
    /\ (last.op \in {"setPosition", "setPoint"} /\ last.err = "none")
           => Len(ledger) = last.cursor0 + 1
    /\ last.op \in {"undo", "redo"} => Len(ledger) = Len(last.ledger0)

C29_Ops ==
    {"setAttr", "setAttrCompound", "connectAttr", "disconnectAttr", "createNode",
     "DependNode.create"}

\* C29: a mutating operation that raises leaves the undo ledger as it was, and a
\* Command is registered only after its forward action has been applied: every
\* commit of the call comes after a successful doIt of the call.
C29_Claim ==
    last.op \in C29_Ops
        => /\ last.err # "none" => LedgerUntouched
           /\ \A i \in 1..Len(last.ev) :
                  last.ev[i] = "commit" => \E j \in 1..(i - 1) : last.ev[j] = "doIt"

\* the nearest ancestor of c among the classes of the core module
C30_Nearest(c) ==
    CHOOSE p \in LibClasses : IsA(c, p) /\ \A q \in LibClasses : IsA(c, q) => IsA(p, q)

\* C30: after any calls of register, a registered class is once in the list of
\* registered classes and once in the list of one parent type, its nearest
\* ancestor of the core module; registering it again changes nothing;
\* isRegistered holds exactly for the classes registered; and a wrapper class
\* called without a handle raises RuntimeError unless it is registered.
C30_Claim ==
    /\ \A c \in VClasses \cup {"Transform"} : isRegistered(vClasses, c) <=> c \in rlast.called
    /\ \A c \in rlast.called :
          /\ Count(vClasses, c) = 1
          /\ \A p \in LibClasses :
                Count(parentDict[p], c) = IF p = C30_Nearest(c) THEN 1 ELSE 0
    /\ (rlast.op = "register" /\ rlast.cls \in rlast.called0)
           => (parentDict = rlast.parentDict0 /\ vClasses = rlast.vClasses0)
    /\ rlast.op = "construct"
           => (rlast.err = "RuntimeError" <=> rlast.cls \notin rlast.called)

\* UserTransformSub registered a second time, after UserTransform
C30_Witness ==
    /\ rlast.op = "register"
    /\ rlast.cls = "UserTransformSub"
    /\ rlast.cls \in rlast.called0
    /\ vClasses = <<"UserTransform", "UserTransformSub">>
    /\ parentDict["Transform"] = <<"UserTransform", "UserTransformSub">>
====
